---- MODULE Spec2Model ----
(***************************************************************************)
(* State-machine model of the SHA back office (sha_system):                *)
(*   - the reference-code generators of the ModelAdmin.save_model methods  *)
(*     (Member, Employer, HealthcareProvider, PreAuthorization, Claim,     *)
(*     Payment), over one table at a time;                                 *)
(*   - the bulk actions of ClaimAdmin and PreAuthorizationAdmin.           *)
(* Strings are sequences of one-character strings, so that startswith,     *)
(* split, int(), the :06d format and the ORDER BY of the code column are   *)
(* computed the way the code computes them.                                *)
(***************************************************************************)
EXTENDS Integers, Sequences, FiniteSets, TLC

VARIABLES
    fam,        \* the ModelAdmin (code family) whose table is modelled
    year,       \* datetime.datetime.now().year
    table,      \* rows of the family's table: [id, code]
    nextId,     \* next primary key (a fresh UUID)
    hist,       \* the operations carried out so far, with their outcomes
    pc,         \* per request: position inside save_model or inside a bulk action
    req,        \* per request: the locals of save_model (year, last, code), or
                \* of a bulk action (action, selected, user, at) with the
                \* state of its UPDATE statement (visited, written, updated)
                \* and the statements it met under way when it arrived
    claims,     \* Claim rows: id -> [status, review_date, approval_date, approved_by,
                \*                    claimed_amount, approved_amount, rejection_reason]
    preauths,   \* PreAuthorization rows: id -> [status, approval_date, approved_by,
                \*                               estimated_cost, approved_amount,
                \*                               rejection_reason]
    payments,   \* Payment rows: id -> [claim, status]
    now,        \* timezone.now(), one tick per request
    report,     \* the last request: action, selection, message count, time
    members,        \* Member rows: id -> [member_type, principal_member]
    contributions,  \* Contribution rows: id -> [member, contribution_month, ...]
    claim_items,    \* ClaimItem rows: id -> [claim, quantity, unit_price, total_amount]
    errors,         \* the errors the last request ended with, {} if it succeeded
    refused,        \* the row the last request could not store, << >> if it stored all
    db              \* the rows of every table with their foreign keys:
                    \* [model, id, refs], while deletions are looked at

vars == << fam, year, table, nextId, hist, pc, req,
           claims, preauths, payments, now, report,
           members, contributions, claim_items, errors, refused, db >>

codeVars == << year, table, nextId, hist, pc, req >>

flowVars == << claims, preauths, payments, now, report >>

bookVars == << members, contributions, claim_items, errors, refused, db >>

(***************************************************************************)
(* Bounds of the model.                                                    *)
(***************************************************************************)
MaxOps == 5          \* operations in one behaviour of the code generator
MaxRaceOps == 6      \* reads and writes in one behaviour of concurrent requests
StartYear == 2025    \* the calendar year the behaviours begin in
YearSpan == 1        \* number of year changes explored
SeedRows == 2        \* rows the seed command creates per table (of 5..60)
NumRequests == 2     \* admin requests that may be in flight together
MaxTime == 5         \* requests in one behaviour of the workflow (clock ticks)
MaxRows == 2         \* rows of the Claim or PreAuthorization table
MaxPayments == 1     \* rows of the Payment table

(***************************************************************************)
(* Characters and strings.                                                 *)
(***************************************************************************)
\* The characters that occur in codes, in ascending code-point order.
Alphabet ==
    << "/", "0", "1", "2", "3", "4", "5", "6", "7", "8", "9",
       "A", "C", "E", "F", "H", "L", "M", "P", "R", "S", "T", "U", "Y" >>

Ord(c) == CHOOSE i \in 1..Len(Alphabet) : Alphabet[i] = c

DigitChars == << "0", "1", "2", "3", "4", "5", "6", "7", "8", "9" >>

IsDigit(c) == \E d \in 1..10 : DigitChars[d] = c

DigitVal(c) == (CHOOSE d \in 1..10 : DigitChars[d] = c) - 1

\* str(n) / f'{n}' for n >= 0
RECURSIVE Str(_)
Str(n) ==
    IF n < 10 THEN << DigitChars[n + 1] >>
    ELSE Str(n \div 10) \o << DigitChars[(n % 10) + 1] >>

RECURSIVE Zeros(_)
Zeros(k) == IF k <= 0 THEN << >> ELSE << "0" >> \o Zeros(k - 1)

\* width of the numeric suffix in f'{new_number:06d}'
PadWidth == 6

\* f'{n:06d}': zero-padded to at least PadWidth characters, never truncated
Format06d(n) == Zeros(PadWidth - Len(Str(n))) \o Str(n)

\* s.startswith(p)
StartsWith(s, p) == Len(s) >= Len(p) /\ SubSeq(s, 1, Len(p)) = p

\* s.split('/')[-1]: what follows the last '/', the whole string if there is none
LastSegment(s) ==
    LET slashes == { i \in 1..Len(s) : s[i] = "/" }
        cut == IF slashes = {} THEN 0
               ELSE CHOOSE i \in slashes : \A j \in slashes : j <= i
    IN  SubSeq(s, cut + 1, Len(s))

\* int(s) succeeds on a non-empty string of decimal digits, else ValueError
IsNumeric(s) == Len(s) > 0 /\ \A i \in 1..Len(s) : IsDigit(s[i])

RECURSIVE IntOf(_)
IntOf(s) ==
    IF Len(s) = 0 THEN 0
    ELSE 10 * IntOf(SubSeq(s, 1, Len(s) - 1)) + DigitVal(s[Len(s)])

\* a < b in the ordering of the code column (character by character)
StrLess(a, b) ==
    \/ Len(a) < Len(b) /\ SubSeq(b, 1, Len(a)) = a
    \/ \E i \in 1..Len(a) :
         /\ i <= Len(b)
         /\ SubSeq(a, 1, i - 1) = SubSeq(b, 1, i - 1)
         /\ Ord(a[i]) < Ord(b[i])

\* .order_by('-code').first() over a non-empty set of codes
FirstDescending(S) == CHOOSE c \in S : \A d \in S : d = c \/ StrLess(d, c)

(***************************************************************************)
(* The six code families.                                                  *)
(***************************************************************************)
Families ==
    { "Member", "Employer", "HealthcareProvider",
      "PreAuthorization", "Claim", "Payment" }

\* Member, PreAuthorization, Claim and Payment filter on the current year
YearScoped(f) == f \in { "Member", "PreAuthorization", "Claim", "Payment" }

\* the literal prefix of the generated code
Prefix(f) ==
    CASE f = "Member"             -> << "S", "H", "A", "/" >>
      [] f = "Employer"           -> << "E", "M", "P", "/" >>
      [] f = "HealthcareProvider" -> << "F", "A", "C", "/" >>
      [] f = "PreAuthorization"   -> << "A", "U", "T", "H", "/" >>
      [] f = "Claim"              -> << "C", "L", "M", "/" >>
      [] f = "Payment"            -> << "P", "A", "Y", "/" >>

\* f'SHA/{year}/' for the year-scoped families, 'EMP/' for the others
Pattern(f, yr) ==
    IF YearScoped(f) THEN Prefix(f) \o Str(yr) \o << "/" >> ELSE Prefix(f)

\* the empty string: a blank code, and the None of an empty query set
None == << >>

CodesOf(tbl) == { r.code : r \in tbl }

\* mutant of last_row: the filter forgets the year
last_row_any_year(f, yr, codes) ==
    LET candidates == IF YearScoped(f)
                      THEN { c \in codes : StartsWith(c, Prefix(f)) }
                      ELSE codes
    IN  IF candidates = {} THEN None ELSE FirstDescending(candidates)

\* last_member = Member.objects.filter(sha_number__startswith=...)
\*                   .order_by('-sha_number').first()
\* last_employer = Employer.objects.order_by('-employer_code').first()
last_row(f, yr, codes) ==
    LET candidates == IF YearScoped(f)
                      THEN { c \in codes : StartsWith(c, Pattern(f, yr)) }
                      ELSE codes
    IN  IF candidates = {} THEN None ELSE FirstDescending(candidates)

\* the branch "if last_member:" / "if last_employer and ....startswith('EMP/'):"
has_last(f, last) ==
    /\ last # None
    /\ YearScoped(f) \/ StartsWith(last, Prefix(f))

\* int(...) raises ValueError on a suffix that is not a number
raises_ValueError(f, last) == has_last(f, last) /\ ~IsNumeric(LastSegment(last))

\* mutant of new_number: the increment is missing
new_number_not_incremented(f, last) ==
    IF has_last(f, last) THEN IntOf(LastSegment(last)) ELSE 1

\* last_number = int(last.code.split('/')[-1]); new_number = last_number + 1
\* else: new_number = 1
new_number(f, last) ==
    IF has_last(f, last) THEN IntOf(LastSegment(last)) + 1 ELSE 1

\* obj.sha_number = f'SHA/{year}/{new_number:06d}'
new_code(f, yr, n) == Pattern(f, yr) \o Format06d(n)

\* the part of save_model before super().save_model: the locals it computes
generate(f, yr, tbl) ==
    LET last == last_row(f, yr, CodesOf(tbl))
    IN  [ year  |-> yr,
          last  |-> last,
          error |-> raises_ValueError(f, last),
          code  |-> IF raises_ValueError(f, last) THEN None
                    ELSE new_code(f, yr, new_number(f, last)) ]

\* unique=True on the code column
UniqueViolation(tbl, code) == \E r \in tbl : r.code = code

\* how the request ends
outcome(g, tbl) ==
    IF g.error THEN "ValueError"
    ELSE IF UniqueViolation(tbl, g.code) THEN "IntegrityError"
    ELSE "ok"

\* super().save_model(request, obj, form, change): the INSERT
save(g, tbl, id) ==
    IF outcome(g, tbl) = "ok" THEN tbl \cup { [ id |-> id, code |-> g.code ] }
    ELSE tbl

(***************************************************************************)
(* The seed command: clear_data, then objects.create per table.            *)
(***************************************************************************)
SeedPrefix(f) ==
    CASE f = "Member"             -> << "S", "H", "A" >>
      [] f = "Employer"           -> << "E", "M", "P" >>
      [] f = "HealthcareProvider" -> << "H", "F" >>
      [] f = "PreAuthorization"   -> << "P", "R", "E", "A", "U", "T", "H" >>
      [] f = "Claim"              -> << "C", "L", "M" >>
      [] f = "Payment"            -> << "P", "A", "Y" >>

\* random.randint(100000000, 999999999): the two ends of the range
RandomRefs == { 100000000, 999999999 }

SeedDraws(f) ==
    IF f = "Payment" THEN [ 1..SeedRows -> RandomRefs ]
    ELSE { [ i \in 1..SeedRows |-> 0 ] }

\* the code of the i-th row created (i counts from 0, as enumerate does)
seed_code(f, i, draw) ==
    SeedPrefix(f) \o
    Str(CASE f = "Member"             -> 2024000000 + i
          [] f = "Employer"           -> 2024000 + i + 1
          [] f = "HealthcareProvider" -> 2024000 + i + 1
          [] f = "PreAuthorization"   -> 2024000 + i
          [] f = "Claim"              -> 2024000000 + i
          [] f = "Payment"            -> draw)

\* objects.create row after row; a duplicate random reference aborts the command
RECURSIVE create_rows(_, _, _, _, _)
create_rows(f, draws, i, tbl, id) ==
    IF i > SeedRows THEN tbl
    ELSE LET c == seed_code(f, i - 1, draws[i])
         IN  IF UniqueViolation(tbl, c) THEN tbl
             ELSE create_rows(f, draws, i + 1,
                              tbl \cup { [ id |-> id + i - 1, code |-> c ] }, id)

(***************************************************************************)
(* History of operations (for stating the claims).                         *)
(***************************************************************************)
\* how many codes of the family (and year) the table holds
Matching(f, yr, tbl) ==
    Cardinality({ c \in CodesOf(tbl) : StartsWith(c, Pattern(f, yr)) })

Event(op, by, yr, last, code, result, matching) ==
    [ op |-> op, by |-> by, year |-> yr, last |-> last, code |-> code,
      result |-> result, matching |-> matching ]

Requests == 1..NumRequests

Idle == [ year |-> 0, last |-> None, error |-> FALSE, code |-> None ]

(***************************************************************************)
(* Initial states: an empty table, a freshly seeded one, or one whose      *)
(* last generated code is two short of the largest PadWidth-digit number.  *)
(***************************************************************************)
InitTables(f) ==
    { {},
      create_rows(f, CHOOSE d \in SeedDraws(f) : d[1] # d[SeedRows], 1, {}, 1),
      { [ id |-> 1, code |-> new_code(f, StartYear, (10 ^ PadWidth) - 2) ] } }

\* no request yet
NoReport ==
    [ action |-> "none", selected |-> {}, count |-> 0, at |-> 0, user |-> "none" ]

\* the workflow tables, while the code generator is looked at
FlowAtRest ==
    /\ claims = << >>
    /\ preauths = << >>
    /\ payments = << >>
    /\ now = 1
    /\ report = NoReport

\* the member, contribution and claim-item tables, while they are not looked at
BooksAtRest ==
    /\ members = << >>
    /\ contributions = << >>
    /\ claim_items = << >>
    /\ errors = {}
    /\ refused = << >>
    /\ db = {}

Init ==
    /\ fam \in Families
    /\ year = StartYear
    /\ table \in InitTables(fam)
    /\ nextId = SeedRows + 1
    /\ hist = << >>
    /\ pc = [ p \in Requests |-> "idle" ]
    /\ req = [ p \in Requests |-> Idle ]
    /\ FlowAtRest
    /\ BooksAtRest

(***************************************************************************)
(* Operations, one request at a time.                                      *)
(***************************************************************************)
\* ModelAdmin.save_model on a new object whose code is blank
Register ==
    /\ Len(hist) < MaxOps
    /\ LET g == generate(fam, year, table)
       IN  /\ table' = save(g, table, nextId)
           /\ hist' = Append(hist,
                  Event("register", 0, year, g.last, g.code, outcome(g, table),
                        Matching(fam, year, table)))
    /\ nextId' = nextId + 1
    /\ UNCHANGED << fam, year, pc, req, flowVars, bookVars >>

\* the admin's delete view on one row
Delete(r) ==
    /\ Len(hist) < MaxOps
    /\ r \in table
    /\ table' = table \ { r }
    /\ hist' = Append(hist,
           Event("delete", 0, year, None, r.code, "ok", Matching(fam, year, table)))
    /\ UNCHANGED << fam, year, nextId, pc, req, flowVars, bookVars >>

\* the calendar year changes
NewYear ==
    /\ Len(hist) < MaxOps
    /\ year < StartYear + YearSpan
    /\ year' = year + 1
    /\ hist' = Append(hist,
           Event("newyear", 0, year + 1, None, None, "ok", Matching(fam, year, table)))
    /\ UNCHANGED << fam, table, nextId, pc, req, flowVars, bookVars >>

\* manage.py seed_data
Seed(draws) ==
    /\ Len(hist) < MaxOps
    /\ table' = create_rows(fam, draws, 1, {}, nextId)
    /\ nextId' = nextId + SeedRows
    /\ hist' = Append(hist,
           Event("seed", 0, year, None, None, "ok", Matching(fam, year, table)))
    /\ UNCHANGED << fam, year, pc, req, flowVars, bookVars >>

Next ==
    \/ Register
    \/ \E r \in table : Delete(r)
    \/ NewYear
    \/ \E draws \in SeedDraws(fam) : Seed(draws)

Spec == Init /\ [][Next]_vars

(***************************************************************************)
(* Claims about the code generator, one request at a time.                 *)
(***************************************************************************)
Positions == 1..Len(hist)

Issued(i) == hist[i].op = "register" /\ hist[i].result = "ok"

\* the text of the years the model explores, written out
YearText(y) ==
    CASE y = 2024 -> << "2", "0", "2", "4" >>
      [] y = 2025 -> << "2", "0", "2", "5" >>
      [] y = 2026 -> << "2", "0", "2", "6" >>
      [] y = 2027 -> << "2", "0", "2", "7" >>
      [] y = 2028 -> << "2", "0", "2", "8" >>

\* the code with suffix k < 10 of a year-scoped family, written out
ExpectedCode(f, y, k) ==
    Prefix(f) \o YearText(y) \o << "/", "0", "0", "0", "0", "0", DigitChars[k + 1] >>

\* C1: over registrations and deletions carried out one at a time within one
\* calendar year, no two issuance events of a year-scoped family produce the
\* same reference code.
C1_IssuedCodesNeverEqual ==
    YearScoped(fam) =>
        \A i, j \in Positions :
            (i < j /\ Issued(i) /\ Issued(j) /\ hist[i].year = hist[j].year)
                => hist[i].code # hist[j].code

\* C3: from a table with no code of the family for the current year, n
\* consecutive registrations receive the suffixes 1..n in order, formatted as
\* prefix, year and six-digit suffix.
C3_ConsecutiveFromOne ==
    YearScoped(fam) =>
        \A i, j \in Positions :
            ( /\ i <= j
              /\ hist[i].matching = 0
              /\ \A k \in i..j : hist[k].op = "register" /\ hist[k].year = hist[i].year )
            => /\ hist[j].result = "ok"
               /\ hist[j].code = ExpectedCode(fam, hist[i].year, j - i + 1)

\* three consecutive registrations from an empty year have been carried out
C3_Witness ==
    /\ fam = "Member"
    /\ Len(hist) >= 3
    /\ \A k \in 1..3 : hist[k].op = "register" /\ hist[k].result = "ok"
    /\ hist[1].matching = 0
    /\ hist[3].code =
         << "S", "H", "A", "/", "2", "0", "2", "5", "/", "0", "0", "0", "0", "0", "3" >>

\* the first registration of position j's year, in a year after the first
FirstOfNewYear(j) ==
    /\ hist[j].op = "register"
    /\ hist[j].year > StartYear
    /\ \A i \in 1..(j - 1) : ~(hist[i].op = "register" /\ hist[i].year = hist[j].year)

C4_FirstOfYearIsOne ==
    YearScoped(fam) =>
        \A j \in Positions :
            FirstOfNewYear(j) =>
                /\ hist[j].result = "ok"
                /\ hist[j].code = ExpectedCode(fam, hist[j].year, 1)

\* a registration adds one row and leaves every other row as it was
C4_RegisterKeepsRows ==
    (hist' # hist /\ hist'[Len(hist')].op = "register") =>
        /\ table \subseteq table'
        /\ Cardinality(table' \ table) <= 1

\* C4: the first code issued after the calendar year changes has suffix 1,
\* whatever the last suffix of an earlier year was, and the codes of earlier
\* years are left unchanged.
C4_NewYearRestartsAtOne == [] C4_FirstOfYearIsOne /\ [][C4_RegisterKeepsRows]_vars

\* a code was issued in a new year while a code of the year before, with a
\* larger suffix, is in the table
C4_Witness ==
    /\ YearScoped(fam)
    /\ \E j \in Positions :
         /\ FirstOfNewYear(j)
         /\ hist[j].code = ExpectedCode(fam, hist[j].year, 1)
         /\ \E r \in table :
              /\ StartsWith(r.code, Pattern(fam, hist[j].year - 1))
              /\ IntOf(LastSegment(r.code)) > 1
         /\ \E r \in table : r.code = hist[j].code

\* the codes of the family (and, year-scoped, of the year) among a set of codes
MatchingCodes(f, yr, codes) ==
    { c \in codes : StartsWith(c, Pattern(f, yr)) /\ IsNumeric(LastSegment(c)) }

LargestSuffix(S) ==
    CHOOSE n \in { IntOf(LastSegment(c)) : c \in S } :
        \A c \in S : IntOf(LastSegment(c)) <= n

\* C5: the generator returns one more than the largest numeric suffix among
\* the existing codes that match the family's pattern, and 1 only when no
\* existing code matches, whatever else the column holds and whatever the
\* digit counts of the suffixes.
C5_OneMoreThanLargest ==
    LET codes == CodesOf(table)
        m == MatchingCodes(fam, year, codes)
    IN  new_number(fam, last_row(fam, year, codes)) =
            IF m = {} THEN 1 ELSE LargestSuffix(m) + 1

\* C6: every reference code the generator produces is the family's pattern
\* followed by exactly six decimal digits.
C6_SixDigitSuffix ==
    \A j \in Positions :
        (hist[j].op = "register" /\ hist[j].result # "ValueError") =>
            /\ StartsWith(hist[j].code, Pattern(fam, hist[j].year))
            /\ Len(hist[j].code) = Len(Pattern(fam, hist[j].year)) + PadWidth
            /\ IsNumeric(LastSegment(hist[j].code))

(***************************************************************************)
(* Requests in flight together: save_model reads the last code, and its    *)
(* INSERT happens later, with other requests' steps in between.            *)
(***************************************************************************)
\* the query for the last code and the computation of the new one
Read(p) ==
    /\ Len(hist) < MaxRaceOps
    /\ pc[p] = "idle"
    /\ LET g == generate(fam, year, table)
       IN  /\ req' = [ req EXCEPT ![p] = g ]
           /\ pc' = [ pc EXCEPT ![p] = IF g.error THEN "idle" ELSE "computed" ]
           /\ hist' = Append(hist,
                  Event("read", p, year, g.last, g.code,
                        IF g.error THEN "ValueError" ELSE "pending",
                        Matching(fam, year, table)))
    /\ UNCHANGED << fam, year, table, nextId, flowVars, bookVars >>

\* super().save_model: the INSERT of the row with the code computed earlier
Write(p) ==
    /\ Len(hist) < MaxRaceOps
    /\ pc[p] = "computed"
    /\ table' = save(req[p], table, nextId)
    /\ nextId' = nextId + 1
    /\ hist' = Append(hist,
           Event("write", p, req[p].year, req[p].last, req[p].code,
                 outcome(req[p], table), Matching(fam, year, table)))
    /\ pc' = [ pc EXCEPT ![p] = "idle" ]
    /\ req' = [ req EXCEPT ![p] = Idle ]
    /\ UNCHANGED << fam, year, flowVars, bookVars >>

RaceNext ==
    \/ \E p \in Requests : Read(p)
    \/ \E p \in Requests : Write(p)
    \/ \E r \in table : Delete(r)
    \/ NewYear
    \/ \E draws \in SeedDraws(fam) : Seed(draws)

SpecRace == Init /\ [][RaceNext]_vars

\* positions i..i+3 hold two reads of the same last code by two requests,
\* followed by their two writes, with no other operation in between
RacedAt(i) ==
    /\ i + 3 <= Len(hist)
    /\ hist[i].op = "read" /\ hist[i + 1].op = "read"
    /\ hist[i].by # hist[i + 1].by
    /\ hist[i].year = hist[i + 1].year
    /\ hist[i].last = hist[i + 1].last
    /\ hist[i + 2].op = "write" /\ hist[i + 3].op = "write"

NoDuplicateCodes == \A r1, r2 \in table : r1.code = r2.code => r1 = r2

\* C2: two registrations that both read the same highest code before either
\* writes compute the same new code; exactly one of the two writes succeeds
\* and the other fails on the uniqueness constraint; the table never holds
\* two rows with the same code.
C2_RaceLosesExactlyOne ==
    /\ NoDuplicateCodes
    /\ \A i \in Positions :
         RacedAt(i) =>
            /\ hist[i].code = hist[i + 1].code
            /\ { hist[i + 2].result, hist[i + 3].result } = { "ok", "IntegrityError" }

(***************************************************************************)
(* The workflow tables and the bulk actions of the admin site.             *)
(***************************************************************************)
\* Claim.STATUS_CHOICES
ClaimStatuses ==
    { "SUBMITTED", "UNDER_REVIEW", "QUERIED", "APPROVED", "REJECTED", "PAID" }

\* PreAuthorization.STATUS_CHOICES
PreAuthStatuses == { "PENDING", "APPROVED", "REJECTED", "EXPIRED" }

\* Payment.PAYMENT_STATUS_CHOICES
PaymentStatuses == { "PENDING", "PROCESSING", "COMPLETED", "FAILED" }

\* request.user of the staff at work
Users == { "officer_a", "officer_b" }

\* null=True: an unset approved_by, an unset date
NoUser == "none"
Null == 0

\* amounts are counted in cents (DecimalField, decimal_places=2)
\* the claimed_amount typed into the claim form (required)
ClaimedAmounts == { 350000 }

\* the approved_amount typed into the claim form (blank=True)
ApprovedAmounts == { Null, 350000 }

\* the estimated_cost typed into the pre-authorization form (required)
EstimatedCosts == { 2000000 }

\* the approved_amount typed into the pre-authorization form (blank=True)
PreAuthApprovedAmounts == { Null, 2000000 }

\* the rejection_reason typed into the claim form (blank=True): left blank, or
\* the text the seed command gives a rejected claim
RejectionReasons == { "", "Service not covered under selected package" }

\* the rejection_reason typed into the pre-authorization form (blank=True)
PreAuthRejectionReasons == { "", "Insufficient documentation provided" }

\* the approved_amount typed into the claim form, the claimed amount and more
FormApprovedAmounts == { Null, 350000, 400000 }

\* the non-empty selections of the change list
Selections(rows) == (SUBSET DOMAIN rows) \ { {} }

\* mutant of mark_under_review_filter: a queried claim goes back under review
mark_under_review_filter_queried(row) == row.status \in { "SUBMITTED", "QUERIED" }

\* queryset.filter(status='SUBMITTED')
mark_under_review_filter(row) == row.status = "SUBMITTED"

\* mutant of approve_claims_filter: approval straight from SUBMITTED
approve_claims_filter_submitted(row) == row.status \in { "SUBMITTED", "UNDER_REVIEW" }

\* queryset.filter(status='UNDER_REVIEW')
approve_claims_filter(row) == row.status = "UNDER_REVIEW"

\* mutant of reject_claims_filter: the exclude is missing
reject_claims_filter_all(row) == TRUE

\* queryset.exclude(status='PAID')
reject_claims_filter(row) == row.status # "PAID"

\* mutant of approve_preauthorization_filter: the filter is missing
approve_preauthorization_filter_all(row) == TRUE

\* queryset.filter(status='PENDING') of approve_preauthorization
approve_preauthorization_filter(row) == row.status = "PENDING"

\* mutant of reject_preauthorization_filter: an approval can be rejected
reject_preauthorization_filter_approved(row) ==
    row.status \in { "PENDING", "APPROVED" }

\* queryset.filter(status='PENDING') of reject_preauthorization
reject_preauthorization_filter(row) == row.status = "PENDING"

\* mutant of updated: the message counts the selection
updated_selection(matched, sel) == Cardinality(sel)

\* updated = queryset....update(...): the number of rows the UPDATE matched
updated(matched, sel) == Cardinality(matched)

\* self.message_user(request, f'{updated} ...'); user is request.user where
\* the action stores it, NoUser where it does not
message_user(action, sel, count, user) ==
    [ action |-> action, selected |-> sel, count |-> count, at |-> now,
      user |-> user ]

\* mutant of mark_under_review_update: the review timestamp is not stamped
mark_under_review_update_no_stamp(row) == [ row EXCEPT !.status = "UNDER_REVIEW" ]

\* .update(status='UNDER_REVIEW', review_date=timezone.now())
mark_under_review_update(row) ==
    [ row EXCEPT !.status = "UNDER_REVIEW", !.review_date = now ]

\* mutant of approve_claims_update: the approval also fills in approved_amount
approve_claims_update_amount(row, user) ==
    [ row EXCEPT !.status = "APPROVED", !.approval_date = now,
                 !.approved_by = user, !.approved_amount = row.claimed_amount ]

\* .update(status='APPROVED', approval_date=timezone.now(), approved_by=request.user)
approve_claims_update(row, user) ==
    [ row EXCEPT !.status = "APPROVED", !.approval_date = now, !.approved_by = user ]

\* mutant of reject_preauthorization_update: the rejection is stamped the way
\* an approval is
reject_preauthorization_update_stamped(row) ==
    [ row EXCEPT !.status = "REJECTED", !.approval_date = now ]

\* mutant of reject_claims_update: a rejected claim is put back in the queue
reject_claims_update_resubmit(row) ==
    [ row EXCEPT !.status = IF row.status = "REJECTED" THEN "SUBMITTED" ELSE "REJECTED" ]

\* .update(status='REJECTED') of reject_claims
reject_claims_update(row) == [ row EXCEPT !.status = "REJECTED" ]

\* .update(status='APPROVED', approval_date=timezone.now(), approved_by=request.user)
\* of approve_preauthorization
approve_preauthorization_update(row, user) ==
    [ row EXCEPT !.status = "APPROVED", !.approval_date = now, !.approved_by = user ]

\* .update(status='REJECTED') of reject_preauthorization
reject_preauthorization_update(row) == [ row EXCEPT !.status = "REJECTED" ]

\* the code generator, while the workflow is looked at
CodesAtRest ==
    /\ year = StartYear
    /\ table = {}
    /\ nextId = 1
    /\ hist = << >>
    /\ pc = [ p \in Requests |-> "idle" ]
    /\ req = [ p \in Requests |-> Idle ]

AdminInit ==
    /\ fam \in { "Claim", "PreAuthorization" }
    /\ CodesAtRest
    /\ FlowAtRest
    /\ BooksAtRest

\* every request takes place at a later timezone.now() than the one before
Tick == now < MaxTime /\ now' = now + 1

\* ClaimAdmin.save_model from the add form (c is new) or the change form:
\* the row is saved with the status and the amounts typed into the form
claim_save_model(c, s, claimed, approved, reason) ==
    /\ fam = "Claim"
    /\ Tick
    /\ c \in 1..MaxRows
    /\ c \in DOMAIN claims \/ c = Len(claims) + 1
    /\ LET row == IF c \in DOMAIN claims
                  THEN [ claims[c] EXCEPT !.status = s,
                                          !.claimed_amount = claimed,
                                          !.approved_amount = approved,
                                          !.rejection_reason = reason ]
                  ELSE [ status |-> s, review_date |-> Null,
                         approval_date |-> Null, approved_by |-> NoUser,
                         claimed_amount |-> claimed, approved_amount |-> approved,
                         rejection_reason |-> reason ]
           rows == [ d \in DOMAIN claims \cup { c } |->
                        IF d = c THEN row ELSE claims[d] ]
       IN  /\ claims' = rows
    /\ report' = message_user("claim.save_model", { c }, 1, NoUser)
    /\ UNCHANGED << fam, codeVars, bookVars, preauths, payments >>

\* ClaimAdmin.mark_under_review
mark_under_review(sel) ==
    /\ fam = "Claim"
    /\ Tick
    /\ sel \in Selections(claims)
    /\ LET matched == { c \in sel : mark_under_review_filter(claims[c]) }
           rows == [ c \in DOMAIN claims |->
                        IF c \in matched
                        THEN mark_under_review_update(claims[c])
                        ELSE claims[c] ]
       IN  /\ claims' = rows
           /\ report' = message_user("mark_under_review", sel, updated(matched, sel), NoUser)
    /\ UNCHANGED << fam, codeVars, bookVars, preauths, payments >>

\* ClaimAdmin.approve_claims
approve_claims(sel, user) ==
    /\ fam = "Claim"
    /\ Tick
    /\ sel \in Selections(claims)
    /\ LET matched == { c \in sel : approve_claims_filter(claims[c]) }
           rows == [ c \in DOMAIN claims |->
                        IF c \in matched
                        THEN approve_claims_update(claims[c], user)
                        ELSE claims[c] ]
       IN  /\ claims' = rows
           /\ report' = message_user("approve_claims", sel, updated(matched, sel), user)
    /\ UNCHANGED << fam, codeVars, bookVars, preauths, payments >>

\* ClaimAdmin.reject_claims
reject_claims(sel) ==
    /\ fam = "Claim"
    /\ Tick
    /\ sel \in Selections(claims)
    /\ LET matched == { c \in sel : reject_claims_filter(claims[c]) }
           rows == [ c \in DOMAIN claims |->
                        IF c \in matched
                        THEN reject_claims_update(claims[c])
                        ELSE claims[c] ]
       IN  /\ claims' = rows
           /\ report' = message_user("reject_claims", sel, updated(matched, sel), NoUser)
    /\ UNCHANGED << fam, codeVars, bookVars, preauths, payments >>

\* PaymentAdmin.save_model from the add form: a payment against claim c
payment_save_model(c, s) ==
    /\ fam = "Claim"
    /\ Tick
    /\ c \in DOMAIN claims
    /\ Len(payments) < MaxPayments
    /\ payments' = Append(payments, [ claim |-> c, status |-> s ])
    /\ report' = message_user("payment.save_model", { Len(payments) + 1 }, 1, NoUser)
    /\ UNCHANGED << fam, codeVars, bookVars, claims, preauths >>

\* PaymentAdmin.mark_as_completed
payment_mark_as_completed(sel) ==
    /\ fam = "Claim"
    /\ Tick
    /\ sel \in Selections(payments)
    /\ payments' = [ p \in DOMAIN payments |->
                       IF p \in sel THEN [ payments[p] EXCEPT !.status = "COMPLETED" ]
                       ELSE payments[p] ]
    /\ report' = message_user("payment.mark_as_completed", sel, updated(sel, sel), NoUser)
    /\ UNCHANGED << fam, codeVars, bookVars, claims, preauths >>

\* PaymentAdmin.mark_as_failed
payment_mark_as_failed(sel) ==
    /\ fam = "Claim"
    /\ Tick
    /\ sel \in Selections(payments)
    /\ payments' = [ p \in DOMAIN payments |->
                       IF p \in sel THEN [ payments[p] EXCEPT !.status = "FAILED" ]
                       ELSE payments[p] ]
    /\ report' = message_user("payment.mark_as_failed", sel, updated(sel, sel), NoUser)
    /\ UNCHANGED << fam, codeVars, bookVars, claims, preauths >>

\* PreAuthorizationAdmin.save_model from the add form (p is new) or the change
\* form: the row is saved with the status chosen in the form
preauthorization_save_model(p, s, cost, approved, reason) ==
    /\ fam = "PreAuthorization"
    /\ Tick
    /\ p \in 1..MaxRows
    /\ p \in DOMAIN preauths \/ p = Len(preauths) + 1
    /\ LET row == IF p \in DOMAIN preauths
                  THEN [ preauths[p] EXCEPT !.status = s,
                                            !.estimated_cost = cost,
                                            !.approved_amount = approved,
                                            !.rejection_reason = reason ]
                  ELSE [ status |-> s, approval_date |-> Null, approved_by |-> NoUser,
                         estimated_cost |-> cost, approved_amount |-> approved,
                         rejection_reason |-> reason ]
       IN  preauths' = [ d \in DOMAIN preauths \cup { p } |->
                           IF d = p THEN row ELSE preauths[d] ]
    /\ report' = message_user("preauthorization.save_model", { p }, 1, NoUser)
    /\ UNCHANGED << fam, codeVars, bookVars, claims, payments >>

\* PreAuthorizationAdmin.approve_preauthorization
approve_preauthorization(sel, user) ==
    /\ fam = "PreAuthorization"
    /\ Tick
    /\ sel \in Selections(preauths)
    /\ LET matched == { p \in sel : approve_preauthorization_filter(preauths[p]) }
       IN  /\ preauths' = [ p \in DOMAIN preauths |->
                              IF p \in matched
                              THEN approve_preauthorization_update(preauths[p], user)
                              ELSE preauths[p] ]
           /\ report' = message_user("approve_preauthorization", sel,
                                     updated(matched, sel), user)
    /\ UNCHANGED << fam, codeVars, bookVars, claims, payments >>

\* PreAuthorizationAdmin.reject_preauthorization
reject_preauthorization(sel) ==
    /\ fam = "PreAuthorization"
    /\ Tick
    /\ sel \in Selections(preauths)
    /\ LET matched == { p \in sel : reject_preauthorization_filter(preauths[p]) }
       IN  /\ preauths' = [ p \in DOMAIN preauths |->
                              IF p \in matched
                              THEN reject_preauthorization_update(preauths[p])
                              ELSE preauths[p] ]
           /\ report' = message_user("reject_preauthorization", sel,
                                     updated(matched, sel), NoUser)
    /\ UNCHANGED << fam, codeVars, bookVars, claims, payments >>

AdminNext ==
    \/ \E c \in 1..MaxRows, s \in ClaimStatuses,
          claimed \in ClaimedAmounts, approved \in ApprovedAmounts :
          claim_save_model(c, s, claimed, approved, "")
    \/ \E sel \in Selections(claims) : mark_under_review(sel)
    \/ \E sel \in Selections(claims), u \in Users : approve_claims(sel, u)
    \/ \E sel \in Selections(claims) : reject_claims(sel)
    \/ \E c \in DOMAIN claims, s \in PaymentStatuses :
          payment_save_model(c, s)
    \/ \E sel \in Selections(payments) : payment_mark_as_completed(sel)
    \/ \E sel \in Selections(payments) : payment_mark_as_failed(sel)
    \/ \E p \in 1..MaxRows, s \in PreAuthStatuses,
          cost \in EstimatedCosts, approved \in PreAuthApprovedAmounts :
          preauthorization_save_model(p, s, cost, approved, "")
    \/ \E sel \in Selections(preauths), u \in Users : approve_preauthorization(sel, u)
    \/ \E sel \in Selections(preauths) : reject_preauthorization(sel)

SpecAdmin == AdminInit /\ [][AdminNext]_vars

\* the change forms with every amount and reason they accept, and the reject
\* actions
FormsNext ==
    \/ \E c \in 1..MaxRows, s \in ClaimStatuses, claimed \in ClaimedAmounts,
          approved \in FormApprovedAmounts, reason \in RejectionReasons :
          claim_save_model(c, s, claimed, approved, reason)
    \/ \E sel \in Selections(claims) : reject_claims(sel)
    \/ \E p \in 1..MaxRows, s \in PreAuthStatuses, cost \in EstimatedCosts,
          approved \in PreAuthApprovedAmounts, reason \in PreAuthRejectionReasons :
          preauthorization_save_model(p, s, cost, approved, reason)
    \/ \E sel \in Selections(preauths) : reject_preauthorization(sel)

SpecForms == AdminInit /\ [][FormsNext]_vars

(***************************************************************************)
(* Claims about the claim and pre-authorization workflows.                 *)
(***************************************************************************)
\* the step just taken is a request of the given kind
Did(action) == report' # report /\ report'.action = action

Selected == report'.selected

\* the claim a payment is made against
ClaimOf(p) == payments[p].claim

\* C7 (as stated): mark_under_review takes a SUBMITTED claim to UNDER_REVIEW,
\* approve takes it to APPROVED, and the payment step takes it to PAID.
C7_PaymentStepPays ==
    [][ /\ Did("mark_under_review") =>
             \A c \in Selected :
                claims[c].status = "SUBMITTED" => claims'[c].status = "UNDER_REVIEW"
        /\ Did("approve_claims") =>
             \A c \in Selected :
                claims[c].status = "UNDER_REVIEW" => claims'[c].status = "APPROVED"
        /\ Did("payment.mark_as_completed") =>
             \A p \in Selected :
                claims[ClaimOf(p)].status = "APPROVED" => claims'[ClaimOf(p)].status = "PAID"
      ]_vars

\* C7 (amended): mark_under_review takes exactly the selected SUBMITTED claims
\* to UNDER_REVIEW and approve_claims exactly the selected UNDER_REVIEW claims
\* to APPROVED; no payment request changes a claim; a claim becomes PAID only
\* by being saved with that status through ClaimAdmin.save_model.
C7_WorkflowSteps ==
    [][ /\ Did("mark_under_review") =>
             \A c \in DOMAIN claims :
                claims'[c].status =
                    IF c \in Selected /\ claims[c].status = "SUBMITTED"
                    THEN "UNDER_REVIEW" ELSE claims[c].status
        /\ Did("approve_claims") =>
             \A c \in DOMAIN claims :
                claims'[c].status =
                    IF c \in Selected /\ claims[c].status = "UNDER_REVIEW"
                    THEN "APPROVED" ELSE claims[c].status
        /\ ( \/ Did("payment.save_model")
             \/ Did("payment.mark_as_completed")
             \/ Did("payment.mark_as_failed") ) => claims' = claims
        /\ ( \E c \in DOMAIN claims' :
                /\ claims'[c].status = "PAID"
                /\ c \in DOMAIN claims => claims[c].status # "PAID" )
           => Did("claim.save_model")
      ]_vars

\* a claim that mark_under_review took to UNDER_REVIEW and approve_claims
\* later took to APPROVED has just been saved as PAID
C7_Witness ==
    /\ report.action = "claim.save_model"
    /\ \E c \in report.selected :
         /\ claims[c].status = "PAID"
         /\ claims[c].review_date # Null
         /\ claims[c].approval_date > claims[c].review_date
         /\ claims[c].approved_by # NoUser

\* C8: no bulk action of ClaimAdmin changes the status of a PAID claim, and
\* reject_claims sets REJECTED on exactly the selected claims that are not PAID.
C8_PaidIsFinal ==
    [][ /\ ( Did("mark_under_review") \/ Did("approve_claims") \/ Did("reject_claims") )
             => \A c \in DOMAIN claims :
                   claims[c].status = "PAID" => claims'[c].status = "PAID"
        /\ Did("reject_claims") =>
             \A c \in DOMAIN claims :
                claims'[c].status =
                    IF c \in Selected /\ claims[c].status # "PAID"
                    THEN "REJECTED" ELSE claims[c].status
      ]_vars

\* reject_claims has run over a PAID claim and a claim it did reject
C8_Witness ==
    /\ report.action = "reject_claims"
    /\ report.count = 1
    /\ \E c1, c2 \in report.selected :
         /\ claims[c1].status = "PAID"
         /\ claims[c2].status = "REJECTED"

\* C9: approve_preauthorization sets a PENDING pre-authorization to APPROVED
\* with approval_date and approved_by set, and leaves an APPROVED one as it is.
C9_ApproveIsIdempotent ==
    [][ Did("approve_preauthorization") =>
          \A p \in Selected :
             /\ preauths[p].status = "PENDING" =>
                   /\ preauths'[p].status = "APPROVED"
                   /\ preauths'[p].approval_date # Null
                   /\ preauths'[p].approved_by # NoUser
             /\ preauths[p].status = "APPROVED" => preauths'[p] = preauths[p]
      ]_vars

\* approve_preauthorization has run again over a pre-authorization that an
\* earlier approve_preauthorization had approved
C9_Witness ==
    /\ report.action = "approve_preauthorization"
    /\ \E p \in report.selected :
         /\ preauths[p].status = "APPROVED"
         /\ preauths[p].approval_date # Null
         /\ preauths[p].approval_date < report.at
         /\ preauths[p].approved_by # NoUser

\* the guarded bulk actions, and the rows each one is written to apply to
GuardedActions ==
    { "approve_preauthorization", "reject_preauthorization",
      "approve_claims", "reject_claims", "mark_under_review" }

Guard(action, status) ==
    CASE action = "approve_preauthorization" -> status = "PENDING"
      [] action = "reject_preauthorization"  -> status = "PENDING"
      [] action = "approve_claims"           -> status = "UNDER_REVIEW"
      [] action = "reject_claims"            -> status # "PAID"
      [] action = "mark_under_review"        -> status = "SUBMITTED"

OnPreAuths(action) ==
    action \in { "approve_preauthorization", "reject_preauthorization" }

\* C10 (as stated): the count reported by a guarded bulk action is the number
\* of selected rows whose status it changed, and rows outside the guard are
\* not touched.
C10_CountIsChanged ==
    [][ \A a \in GuardedActions :
          Did(a) =>
             LET old == IF OnPreAuths(a) THEN preauths ELSE claims
                 new == IF OnPreAuths(a) THEN preauths' ELSE claims'
             IN  /\ report'.count =
                       Cardinality({ r \in Selected : new[r].status # old[r].status })
                 /\ \A r \in DOMAIN old :
                       ~(r \in Selected /\ Guard(a, old[r].status)) => new[r] = old[r]
      ]_vars

\* C10 (amended): the count reported is the number of selected rows that
\* match the action's guard; rows outside the guard are not touched; the
\* count is the number of rows whose status changed for every action but
\* reject_claims, which also counts the selected claims already REJECTED.
C10_CountIsMatched ==
    [][ \A a \in GuardedActions :
          Did(a) =>
             LET old == IF OnPreAuths(a) THEN preauths ELSE claims
                 new == IF OnPreAuths(a) THEN preauths' ELSE claims'
                 changed == { r \in Selected : new[r].status # old[r].status }
                 rejected == { r \in Selected : old[r].status = "REJECTED" }
             IN  /\ report'.count =
                       Cardinality({ r \in Selected : Guard(a, old[r].status) })
                 /\ \A r \in DOMAIN old :
                       ~(r \in Selected /\ Guard(a, old[r].status)) => new[r] = old[r]
                 /\ DOMAIN new = DOMAIN old
                 /\ report'.count =
                       IF a = "reject_claims"
                       THEN Cardinality(changed) + Cardinality(rejected)
                       ELSE Cardinality(changed)
      ]_vars

\* approve_preauthorization over one PENDING and one already APPROVED row
\* has reported 1
C10_Witness ==
    /\ report.action = "approve_preauthorization"
    /\ report.count = 1
    /\ \E p, q \in report.selected :
         /\ preauths[p].status = "APPROVED"
         /\ preauths[p].approval_date # Null
         /\ preauths[p].approval_date < report.at
         /\ preauths[q].status = "APPROVED"
         /\ preauths[q].approval_date = report.at

(***************************************************************************)
(* Claims about the effect of each bulk action on the rows it is given.    *)
(***************************************************************************)
\* C15: mark_under_review changes a selected claim only if its status is
\* SUBMITTED, and then sets status UNDER_REVIEW and review_date to the current
\* time; every other claim keeps its status, its review_date and all else.
C15_MarkUnderReviewOnlySubmitted ==
    [][ Did("mark_under_review") =>
          /\ DOMAIN claims' = DOMAIN claims
          /\ \A c \in DOMAIN claims :
                claims'[c] =
                    IF c \in Selected /\ claims[c].status = "SUBMITTED"
                    THEN [ claims[c] EXCEPT !.status = "UNDER_REVIEW",
                                            !.review_date = now ]
                    ELSE claims[c]
      ]_vars

\* mark_under_review has run over a SUBMITTED claim, now under review and
\* stamped, and over a claim under review already, whose stamp is the older one
C15_Witness ==
    /\ report.action = "mark_under_review"
    /\ report.count = 1
    /\ \E c1, c2 \in report.selected :
         /\ claims[c1].status = "UNDER_REVIEW"
         /\ claims[c1].review_date = report.at
         /\ claims[c2].status = "UNDER_REVIEW"
         /\ claims[c2].review_date # Null
         /\ claims[c2].review_date < report.at

\* C16: approve_claims changes a selected claim only if its status is
\* UNDER_REVIEW, and then sets status APPROVED, approval_date to the current
\* time and approved_by to the acting user, leaving approved_amount,
\* claimed_amount and every other field as they were; a claim in any other
\* status, SUBMITTED included, is left unchanged.
C16_ApproveClaimsFrame ==
    [][ Did("approve_claims") =>
          /\ DOMAIN claims' = DOMAIN claims
          /\ report'.user \in Users
          /\ \A c \in DOMAIN claims :
                claims'[c] =
                    IF c \in Selected /\ claims[c].status = "UNDER_REVIEW"
                    THEN [ claims[c] EXCEPT !.status = "APPROVED",
                                            !.approval_date = now,
                                            !.approved_by = report'.user ]
                    ELSE claims[c]
          /\ \A c \in DOMAIN claims :
                /\ claims'[c].approved_amount = claims[c].approved_amount
                /\ claims'[c].claimed_amount = claims[c].claimed_amount
      ]_vars

\* approve_claims has just approved a claim under review whose approved_amount
\* is still blank, and has left a SUBMITTED claim of the selection as it was
C16_Witness ==
    /\ report.action = "approve_claims"
    /\ report.count = 1
    /\ \E c1, c2 \in report.selected :
         /\ claims[c1].status = "APPROVED"
         /\ claims[c1].approval_date = report.at
         /\ claims[c1].approved_by = report.user
         /\ claims[c1].approved_amount = Null
         /\ claims[c1].claimed_amount # Null
         /\ claims[c2].status = "SUBMITTED"
         /\ claims[c2].approval_date = Null

\* the bulk actions of ClaimAdmin
ClaimActions == { "mark_under_review", "approve_claims", "reject_claims" }

\* C17 (as stated): no bulk action of ClaimAdmin changes a claim's status to
\* QUERIED, and none changes the status of a claim that is QUERIED.
C17_QueriedIsIsolated ==
    [][ \A a \in ClaimActions :
          Did(a) =>
             \A c \in DOMAIN claims :
                /\ claims[c].status # "QUERIED" => claims'[c].status # "QUERIED"
                /\ claims[c].status = "QUERIED" => claims'[c].status = "QUERIED"
      ]_vars

\* C17 (amended): no bulk action of ClaimAdmin changes a claim's status to
\* QUERIED; mark_under_review and approve_claims leave a QUERIED claim as it
\* is; reject_claims takes a selected QUERIED claim to REJECTED.
C17_QueriedLeftOnlyByReject ==
    [][ \A a \in ClaimActions :
          Did(a) =>
             \A c \in DOMAIN claims :
                /\ claims[c].status # "QUERIED" => claims'[c].status # "QUERIED"
                /\ claims[c].status = "QUERIED" =>
                      IF a = "reject_claims" /\ c \in Selected
                      THEN claims'[c] = [ claims[c] EXCEPT !.status = "REJECTED" ]
                      ELSE claims'[c] = claims[c]
      ]_vars

\* mark_under_review has run over a QUERIED claim, which is QUERIED still
C17_Witness ==
    /\ report.action = "mark_under_review"
    /\ report.count = 1
    /\ \E c1, c2 \in report.selected :
         /\ claims[c1].status = "QUERIED"
         /\ claims[c2].status = "UNDER_REVIEW"
         /\ claims[c2].review_date = report.at

\* the place of a status in the order SUBMITTED, UNDER_REVIEW, APPROVED, PAID
Rank(status) ==
    CASE status = "SUBMITTED"    -> 1
      [] status = "UNDER_REVIEW" -> 2
      [] status = "APPROVED"     -> 3
      [] status = "PAID"         -> 4
      [] OTHER                   -> 0

\* C18: over any sequence of mark_under_review, approve_claims and
\* reject_claims requests, no claim moves to a status that precedes its own in
\* the order SUBMITTED, UNDER_REVIEW, APPROVED, PAID, and a REJECTED claim
\* takes no other status.
C18_ForwardOnly ==
    [][ \A a \in ClaimActions :
          Did(a) =>
             \A c \in DOMAIN claims :
                /\ ( Rank(claims[c].status) > 0 /\ Rank(claims'[c].status) > 0 )
                      => Rank(claims'[c].status) >= Rank(claims[c].status)
                /\ claims[c].status = "REJECTED" => claims'[c].status = "REJECTED"
      ]_vars

\* reject_claims has just rejected a claim that had been put under review
\* and then approved
C18_Witness ==
    /\ report.action = "reject_claims"
    /\ report.count = 1
    /\ \E c \in report.selected :
         /\ claims[c].status = "REJECTED"
         /\ claims[c].review_date # Null
         /\ claims[c].approval_date > claims[c].review_date
         /\ claims[c].approval_date < report.at

\* C19: after approve_preauthorization on a PENDING pre-authorization its
\* approved_amount is not null and, where none had been entered, equals its
\* estimated_cost.
C19_ApprovedAmountDefaults ==
    [][ Did("approve_preauthorization") =>
          \A p \in Selected :
             preauths[p].status = "PENDING" =>
                /\ preauths'[p].approved_amount # Null
                /\ preauths[p].approved_amount = Null =>
                      preauths'[p].approved_amount = preauths[p].estimated_cost
      ]_vars

\* C20: reject_preauthorization changes a selected pre-authorization only if
\* its status is PENDING, setting it to REJECTED; an APPROVED, REJECTED or
\* EXPIRED one is left entirely unchanged, and the request ends without an
\* exception, reporting the PENDING rows only.
C20_RejectOnlyPending ==
    [][ Did("reject_preauthorization") =>
          /\ DOMAIN preauths' = DOMAIN preauths
          /\ \A p \in DOMAIN preauths :
                preauths'[p] =
                    IF p \in Selected /\ preauths[p].status = "PENDING"
                    THEN [ preauths[p] EXCEPT !.status = "REJECTED" ]
                    ELSE preauths[p]
          /\ errors' = {}
          /\ report'.count =
                Cardinality({ p \in Selected : preauths[p].status = "PENDING" })
      ]_vars

\* reject_preauthorization has run over a pre-authorization approved earlier,
\* which still carries its approval, and has reported no row
C20_Witness ==
    /\ report.action = "reject_preauthorization"
    /\ report.count = 0
    /\ \E p \in report.selected :
         /\ preauths[p].status = "APPROVED"
         /\ preauths[p].approval_date # Null
         /\ preauths[p].approved_by \in Users
    /\ errors = {}

\* the reject step left the row's rejection_reason written: blank, or another
\* text than the one it held
reason_written(old, new) ==
    new.rejection_reason = "" \/ new.rejection_reason # old.rejection_reason

\* C21: the reject operations on claims and on pre-authorizations write the
\* record's rejection_reason together with the status change: a row that a
\* reject has taken to REJECTED holds a reason set by that reject, never the
\* text it held before.
C21_RejectWritesReason ==
    [][ /\ Did("reject_claims") =>
              \A c \in Selected :
                 claims'[c].status # claims[c].status
                 => reason_written(claims[c], claims'[c])
        /\ Did("reject_preauthorization") =>
              \A p \in Selected :
                 preauths'[p].status # preauths[p].status
                 => reason_written(preauths[p], preauths'[p]) ]_vars

\* C23: in every reachable state, every claim whose approved_amount is set
\* has approved_amount less than or equal to its claimed_amount.
C23_ApprovedWithinClaimed ==
    \A c \in DOMAIN claims :
        claims[c].approved_amount # Null
        => claims[c].approved_amount <= claims[c].claimed_amount

\* C25: in every reachable state, every Payment references a Claim whose
\* status is APPROVED or PAID.
C25_PaymentsAgainstApprovedOrPaid ==
    \A p \in DOMAIN payments :
        claims[ClaimOf(p)].status \in { "APPROVED", "PAID" }

(***************************************************************************)
(* Members, contributions and claim items: the seed command's create_*     *)
(* methods and the add and change forms of the admin site.                 *)
(***************************************************************************)
SeedDependents == 1   \* dependents the seed command creates per sampled principal (of 1..3)
SeedMonths == 2       \* months of contributions the seed command creates per member (of 6)
MaxMembers == 3       \* rows of the Member table
MaxContributions == 2 \* rows of the Contribution table
MaxQuantity == 2      \* largest quantity of a seeded claim item (of 3)
MaxBookOps == 2       \* requests in one behaviour of the member, contribution and item tables

\* a table as the rows in order of their ids 1..n
Rows(seq) == { seq[i] : i \in DOMAIN seq }

Max(a, b) == IF a >= b THEN a ELSE b

RECURSIVE SumOver(_, _)
SumOver(S, f) ==
    IF S = {} THEN 0
    ELSE LET x == CHOOSE x \in S : TRUE IN f[x] + SumOver(S \ { x }, f)

(***************************************************************************)
(* Dates are days counted from 2024-01-01 = 1, over 2024 and 2025.         *)
(***************************************************************************)
MonthLengths ==
    << 31, 29, 31, 30, 31, 30, 31, 31, 30, 31, 30, 31,
       31, 28, 31, 30, 31, 30, 31, 31, 30, 31, 30, 31 >>

RECURSIVE MonthStart(_)
MonthStart(k) == IF k = 1 THEN 1 ELSE MonthStart(k - 1) + MonthLengths[k - 1]

\* the first day of every month of the two years
MonthStarts == [ k \in DOMAIN MonthLengths |-> MonthStart(k) ]

Date(y, m, d) == MonthStarts[(y - 2024) * 12 + m] + d - 1

\* date.replace(day=1)
replace_day_1(date) ==
    LET k == CHOOSE k \in DOMAIN MonthLengths :
                 MonthStarts[k] <= date /\ date < MonthStarts[k] + MonthLengths[k]
    IN  MonthStarts[k]

\* datetime.now().date() on the day the seed command runs
Todays == { Date(2025, 1, 31), Date(2025, 3, 15) }

\* contribution_date = datetime.now().date() - timedelta(days=30 * month_offset)
\* contribution_month = contribution_date.replace(day=1)
seed_contribution_month(today, month_offset) ==
    replace_day_1(today - 30 * month_offset)

(***************************************************************************)
(* Amounts: a stored amount is a whole number of cents (decimal_places=2); *)
(* a Decimal product is kept in hundredths of a cent until it is stored.   *)
(***************************************************************************)
\* MinValueValidator(Decimal('300.00')), in cents
MinContribution == 30000

\* how the database rounds a value that lies halfway between two cents
Roundings == { "half_even", "half_up" }

\* a Decimal with four decimal places written to a DecimalField(decimal_places=2)
to_db(v, rounding) ==
    LET q == v \div 100
        r == v % 100
    IN  IF r < 50 THEN q
        ELSE IF r > 50 THEN q + 1
        ELSE IF rounding = "half_even" /\ q % 2 = 0 THEN q
        ELSE q + 1

\* gross_salary * Decimal('0.0275'), in hundredths of a cent
rate_amount(gross_salary) == gross_salary * 275

\* max(Decimal('300.00'), gross_salary * Decimal('0.0275')), in hundredths of a cent
seed_contribution_amount(gross_salary) ==
    Max(MinContribution * 100, rate_amount(gross_salary))

\* gross_salary = Decimal(random.randint(25000, 200000)): the lower end, and
\* a salary whose contribution ends in half a cent
SeedSalaries == { 25000, 25006 }

(***************************************************************************)
(* Members.                                                                *)
(***************************************************************************)
\* Member.MEMBER_TYPE_CHOICES
MemberTypes == { "PRINCIPAL", "DEPENDENT" }

\* the first loop of create_members: principals, principal_member=None
RECURSIVE create_principals(_)
create_principals(n) ==
    IF n = 0 THEN << >>
    ELSE Append(create_principals(n - 1),
                [ member_type |-> "PRINCIPAL", principal_member |-> Null ])

\* the second loop of create_members: the dependents of the sampled principals
RECURSIVE create_dependents(_, _)
create_dependents(rows, sample) ==
    IF sample = {} THEN rows
    ELSE LET principal == CHOOSE p \in sample : \A q \in sample : p <= q
             dependents == [ j \in 1..SeedDependents |->
                               [ member_type |-> "DEPENDENT",
                                 principal_member |-> principal ] ]
         IN  create_dependents(rows \o dependents, sample \ { principal })

\* Command.create_members: sample is random.sample(members, 30)
create_members(sample) == create_dependents(create_principals(SeedRows), sample)

\* the principals the seed command samples
SeedSamples == (SUBSET (1..SeedRows)) \ { {} }

\* the rows of a table from first to last
RECURSIVE Ascending(_)
Ascending(S) ==
    IF S = {} THEN << >>
    ELSE LET least == CHOOSE x \in S : \A y \in S : x <= y
         IN  << least >> \o Ascending(S \ { least })

\* the last request, as the books record it
Request(action, sel, count) == message_user(action, sel, count, NoUser)

\* every request takes place at a later time than the one before
BookTick == now <= MaxBookOps /\ now' = now + 1

\* Command.create_members, on cleared tables
seed_members(sample) ==
    /\ fam = "Member"
    /\ BookTick
    /\ members' = create_members(sample)
    /\ report' = Request("seed.create_members", DOMAIN members', Len(members'))
    /\ errors' = {}
    /\ refused' = << >>
    /\ UNCHANGED << fam, codeVars, db, claims, preauths, payments,
                    contributions, claim_items >>

\* MemberAdmin's add form (m is new) or change form: member_type and
\* principal_member are two fields of the form, each saved as entered
member_save_model(m, type, principal) ==
    /\ fam = "Member"
    /\ BookTick
    /\ m \in DOMAIN members \/ (m = Len(members) + 1 /\ m <= MaxMembers)
    /\ principal \in DOMAIN members \cup { Null }
    /\ LET row == [ member_type |-> type, principal_member |-> principal ]
       IN  members' = [ d \in DOMAIN members \cup { m } |->
                          IF d = m THEN row ELSE members[d] ]
    /\ report' = Request("member.save_model", { m }, 1)
    /\ errors' = {}
    /\ refused' = << >>
    /\ UNCHANGED << fam, codeVars, db, claims, preauths, payments,
                    contributions, claim_items >>

(***************************************************************************)
(* Contributions.                                                          *)
(***************************************************************************)
\* mutant of unique_together_violation: the constraint is missing
unique_together_unchecked(rows, self, member, month) == FALSE

\* unique_together = ['member', 'contribution_month']: another row holds the pair
unique_together_violation(rows, self, member, month) ==
    \E i \in DOMAIN rows :
        /\ i # self
        /\ rows[i].member = member
        /\ rows[i].contribution_month = month

\* the keyword arguments of the Contribution.objects.create calls of
\* create_contributions, in the order of its two loops
create_contributions_kwargs(employed, today, gross_salary, status, rounding) ==
    LET order == Ascending(employed)
    IN  [ n \in 1..(Len(order) * SeedMonths) |->
            LET member == order[((n - 1) \div SeedMonths) + 1]
                month_offset == (n - 1) % SeedMonths
            IN  [ member |-> member,
                  contribution_month |-> seed_contribution_month(today, month_offset),
                  gross_salary |-> gross_salary,
                  contribution_amount |->
                      to_db(seed_contribution_amount(gross_salary), rounding),
                  status |-> IF month_offset > 0 THEN "COMPLETED" ELSE status ] ]

\* Contribution.objects.create, call after call: the first call that breaks
\* the constraint raises IntegrityError and ends the command
RECURSIVE create_contribution_rows(_, _, _)
create_contribution_rows(kwargs, n, rows) ==
    IF n > Len(kwargs)
    THEN [ rows |-> rows, errors |-> {}, refused |-> << >> ]
    ELSE IF unique_together_violation(rows, Null, kwargs[n].member,
                                      kwargs[n].contribution_month)
    THEN [ rows |-> rows, errors |-> { "IntegrityError" }, refused |-> kwargs[n] ]
    ELSE create_contribution_rows(kwargs, n + 1, Append(rows, kwargs[n]))

\* employed_members: the members with member_type PRINCIPAL (all of them
\* taken to be EMPLOYED)
employed_members == { m \in DOMAIN members : members[m].member_type = "PRINCIPAL" }

\* Command.create_contributions, on cleared tables; gross_salary and status
\* are what the random draws give
seed_contributions(today, gross_salary, status, rounding) ==
    /\ fam = "Contribution"
    /\ BookTick
    /\ employed_members # {}
    /\ LET kwargs == create_contributions_kwargs(employed_members, today,
                                                 gross_salary, status, rounding)
           done == create_contribution_rows(kwargs, 1, << >>)
       IN  /\ contributions' = done.rows
           /\ errors' = done.errors
           /\ refused' = done.refused
           /\ report' = Request("seed.create_contributions",
                                DOMAIN done.rows, Len(done.rows))
    /\ UNCHANGED << fam, codeVars, db, claims, preauths, payments,
                    members, claim_items >>

\* the member chosen in the contribution form
FormMembers == { 1, 2 }

\* the gross_salary typed into the contribution form
FormSalaries == { 10000, 100000 }

\* the contribution_amount typed into the contribution form, in cents
FormAmounts == { 27500, 30000 }

\* the contribution_month typed into the contribution form
FormMonths == { Date(2025, 1, 1), Date(2025, 2, 1) }

\* the errors of the form: the field validator of contribution_amount and
\* the unique_together check of the model form
form_errors(rows, self, kwargs) ==
    ( IF kwargs.contribution_amount < MinContribution
      THEN { "min_value" } ELSE {} )
    \cup
    ( IF unique_together_violation(rows, self, kwargs.member,
                                   kwargs.contribution_month)
      THEN { "unique_together" } ELSE {} )

\* Contribution.STATUS_CHOICES
ContributionStatuses == { "PENDING", "COMPLETED", "FAILED", "REVERSED" }

\* ContributionAdmin's add form (k is new) or change form
contribution_save_model(k, member, month, gross_salary, amount, status) ==
    /\ fam = "Contribution"
    /\ BookTick
    /\ k \in DOMAIN contributions
          \/ (k = Len(contributions) + 1 /\ k <= MaxContributions)
    /\ member \in DOMAIN members
    /\ LET kwargs == [ member |-> member,
                       contribution_month |-> month,
                       gross_salary |-> gross_salary,
                       contribution_amount |-> amount,
                       status |-> status ]
           errs == form_errors(contributions, k, kwargs)
       IN  /\ contributions' =
                 IF errs # {} THEN contributions
                 ELSE [ d \in DOMAIN contributions \cup { k } |->
                          IF d = k THEN kwargs ELSE contributions[d] ]
           /\ errors' = errs
           /\ refused' = IF errs # {} THEN kwargs ELSE << >>
    /\ report' = Request("contribution.save_model", { k }, 1)
    /\ UNCHANGED << fam, codeVars, db, claims, preauths, payments,
                    members, claim_items >>

\* mutant of contribution_mark_as_completed_update: a reversed contribution
\* is left as it is
contribution_mark_as_completed_update_not_reversed(row) ==
    IF row.status = "REVERSED" THEN row ELSE [ row EXCEPT !.status = "COMPLETED" ]

\* .update(status='COMPLETED') of ContributionAdmin.mark_as_completed
contribution_mark_as_completed_update(row) == [ row EXCEPT !.status = "COMPLETED" ]

\* .update(status='FAILED') of ContributionAdmin.mark_as_failed
contribution_mark_as_failed_update(row) == [ row EXCEPT !.status = "FAILED" ]

\* ContributionAdmin.mark_as_completed
contribution_mark_as_completed(sel) ==
    /\ fam = "Contribution"
    /\ BookTick
    /\ sel \in Selections(contributions)
    /\ contributions' = [ k \in DOMAIN contributions |->
                            IF k \in sel
                            THEN contribution_mark_as_completed_update(contributions[k])
                            ELSE contributions[k] ]
    /\ report' = Request("contribution.mark_as_completed", sel, updated(sel, sel))
    /\ errors' = {}
    /\ refused' = << >>
    /\ UNCHANGED << fam, codeVars, db, claims, preauths, payments,
                    members, claim_items >>

\* ContributionAdmin.mark_as_failed
contribution_mark_as_failed(sel) ==
    /\ fam = "Contribution"
    /\ BookTick
    /\ sel \in Selections(contributions)
    /\ contributions' = [ k \in DOMAIN contributions |->
                            IF k \in sel
                            THEN contribution_mark_as_failed_update(contributions[k])
                            ELSE contributions[k] ]
    /\ report' = Request("contribution.mark_as_failed", sel, updated(sel, sel))
    /\ errors' = {}
    /\ refused' = << >>
    /\ UNCHANGED << fam, codeVars, db, claims, preauths, payments,
                    members, claim_items >>

(***************************************************************************)
(* Claims and their items.                                                 *)
(***************************************************************************)
\* standard_tariff of the outpatient services OP001 and OP002, in cents
Tariffs == << 50000, 150000 >>

\* claim_services with the quantity drawn for each:
\* random.sample(package_services, ...) and random.randint(1, 3)
ClaimDraws ==
    UNION { [ S -> 1..MaxQuantity ] : S \in (SUBSET DOMAIN Tariffs) \ { {} } }

\* status_choices of create_claims
SeedClaimStatuses == { "SUBMITTED", "UNDER_REVIEW", "APPROVED", "PAID", "REJECTED" }

\* Decimal(random.uniform(0.85, 1.0)), both ends, in hundredths
SeedFactors == { 85, 100 }

\* claimed_amount = sum(s.standard_tariff for s in claim_services)
seed_claimed_amount(draw) == SumOver(DOMAIN draw, Tariffs)

\* total = service.standard_tariff * quantity
seed_total(service, quantity) == Tariffs[service] * quantity

\* the keyword arguments of Claim.objects.create in create_claims
seed_claim(draw, status, factor, officer) ==
    [ status |-> status,
      review_date |-> IF status # "SUBMITTED" THEN now ELSE Null,
      approval_date |-> IF status \in { "APPROVED", "PAID" } THEN now ELSE Null,
      approved_by |-> IF status \in { "APPROVED", "PAID" } THEN officer ELSE NoUser,
      claimed_amount |-> seed_claimed_amount(draw),
      approved_amount |-> IF status \in { "APPROVED", "PAID" }
                          THEN to_db(seed_claimed_amount(draw) * factor, "half_even")
                          ELSE Null,
      rejection_reason |-> IF status = "REJECTED"
                           THEN "Service not covered under selected package"
                           ELSE "" ]

\* the ClaimItem.objects.create calls of create_claims: one per service of
\* each claim
seed_claim_items(draw) ==
    LET order == Ascending(DOMAIN draw)
    IN  [ n \in 1..(SeedRows * Len(order)) |->
            LET service == order[((n - 1) % Len(order)) + 1]
            IN  [ claim |-> ((n - 1) \div Len(order)) + 1,
                  quantity |-> draw[service],
                  unit_price |-> Tariffs[service],
                  total_amount |-> seed_total(service, draw[service]) ] ]

\* Command.create_claims, on cleared tables
seed_claims(draw, status, factor, officer) ==
    /\ fam = "Claim"
    /\ BookTick
    /\ claims' = [ c \in 1..SeedRows |-> seed_claim(draw, status, factor, officer) ]
    /\ claim_items' = seed_claim_items(draw)
    /\ report' = Request("seed.create_claims", 1..SeedRows, SeedRows)
    /\ errors' = {}
    /\ refused' = << >>
    /\ UNCHANGED << fam, codeVars, db, preauths, payments, members, contributions >>

\* ClaimAdmin's add or change form with a row of ClaimItemInline filled in:
\* total_amount is a read-only field of the inline, so the item is written
\* without it, the NOT NULL column refuses the row and the request is rolled back
claim_save_related(c, quantity, unit_price) ==
    /\ fam = "Claim"
    /\ BookTick
    /\ c \in DOMAIN claims \/ c = Len(claims) + 1
    /\ refused' = [ claim |-> c, quantity |-> quantity, unit_price |-> unit_price,
                    total_amount |-> Null ]
    /\ errors' = { "IntegrityError" }
    /\ report' = Request("claim.save_related", { c }, 0)
    /\ UNCHANGED << fam, codeVars, db, claims, preauths, payments,
                    members, contributions, claim_items >>

\* the tables at the start: the claims and contributions are entered against
\* the members the seed command created
BooksInit ==
    /\ fam \in { "Member", "Contribution", "Claim" }
    /\ CodesAtRest
    /\ FlowAtRest
    /\ members = IF fam = "Contribution" THEN create_members({ 1 }) ELSE << >>
    /\ contributions = << >>
    /\ claim_items = << >>
    /\ errors = {}
    /\ refused = << >>
    /\ db = {}

BooksNext ==
    \/ \E sample \in SeedSamples : seed_members(sample)
    \/ \E m \in 1..MaxMembers, type \in MemberTypes,
          principal \in (1..MaxMembers) \cup { Null } :
          member_save_model(m, type, principal)
    \/ \E today \in Todays, gross_salary \in SeedSalaries,
          status \in { "PENDING", "COMPLETED" }, rounding \in Roundings :
          seed_contributions(today, gross_salary, status, rounding)
    \/ \E k \in 1..MaxContributions, member \in FormMembers,
          month \in FormMonths, gross_salary \in FormSalaries,
          amount \in FormAmounts :
          contribution_save_model(k, member, month, gross_salary, amount, "PENDING")
    \/ \E draw \in ClaimDraws, status \in SeedClaimStatuses,
          factor \in SeedFactors, officer \in Users :
          seed_claims(draw, status, factor, officer)
    \/ \E c \in 1..MaxRows, quantity \in 1..MaxQuantity,
          unit_price \in Rows(Tariffs) :
          claim_save_related(c, quantity, unit_price)

SpecBooks == BooksInit /\ [][BooksNext]_vars

\* the contribution and payment ledgers: rows of every status, and the
\* mark_as_completed and mark_as_failed actions of both admins
LedgerInit ==
    /\ BooksInit
    /\ fam \in { "Contribution", "Claim" }

LedgerNext ==
    \/ \E today \in Todays, status \in { "PENDING", "COMPLETED" } :
          seed_contributions(today, 25000, status, "half_even")
    \/ \E k \in 1..MaxContributions, member \in FormMembers,
          month \in FormMonths, status \in ContributionStatuses :
          contribution_save_model(k, member, month, 100000, 275000, status)
    \/ \E sel \in Selections(contributions) : contribution_mark_as_completed(sel)
    \/ \E sel \in Selections(contributions) : contribution_mark_as_failed(sel)
    \/ \E c \in 1..MaxRows, claimed \in ClaimedAmounts :
          claim_save_model(c, "APPROVED", claimed, claimed, "")
    \/ \E c \in DOMAIN claims, s \in PaymentStatuses : payment_save_model(c, s)
    \/ \E sel \in Selections(payments) : payment_mark_as_completed(sel)
    \/ \E sel \in Selections(payments) : payment_mark_as_failed(sel)

SpecLedger == LedgerInit /\ [][LedgerNext]_vars

(***************************************************************************)
(* Claims about members, contributions and claim items.                    *)
(***************************************************************************)
\* the (member, contribution_month) pair of a contribution
Pair(row) == << row.member, row.contribution_month >>

C11_NoSharedPair ==
    \A i, j \in DOMAIN contributions :
        i # j => Pair(contributions[i]) # Pair(contributions[j])

\* a form sent for a pair that another row holds is refused with the
\* uniqueness error and stores nothing; the seed command stops with
\* IntegrityError at the first pair it has created before
C11_SecondIsRefused ==
    /\ Did("contribution.save_model") =>
          \A k \in Selected :
             LET sent == IF errors' = {} THEN contributions'[k] ELSE refused'
             IN  ( \E i \in DOMAIN contributions \ { k } :
                      Pair(contributions[i]) = Pair(sent) )
                 => /\ "unique_together" \in errors'
                    /\ contributions' = contributions
    /\ ( Did("seed.create_contributions") /\ errors' # {} )
       => /\ errors' = { "IntegrityError" }
          /\ \E i \in DOMAIN contributions' :
                Pair(contributions'[i]) = Pair(refused')

\* C11: in every reachable state no two stored Contributions share the same
\* (member, contribution_month) pair; an attempt to create a second one for an
\* existing pair fails with a uniqueness violation and leaves the stored
\* Contributions unchanged.
C11_UniquePerMemberMonth == [] C11_NoSharedPair /\ [][C11_SecondIsRefused]_vars

\* the form has been refused for a pair that a stored contribution holds,
\* with another gross salary than the stored one
C11_Witness ==
    /\ report.action = "contribution.save_model"
    /\ errors = { "unique_together" }
    /\ \E i \in DOMAIN contributions \ report.selected :
         /\ Pair(contributions[i]) = Pair(refused)
         /\ contributions[i].gross_salary # refused.gross_salary

\* C12: every Member of type DEPENDENT has a principal_member and every
\* Member of type PRINCIPAL has none.
C12_TypeMatchesPrincipal ==
    \A m \in DOMAIN members :
        /\ members[m].member_type = "DEPENDENT" => members[m].principal_member # Null
        /\ members[m].member_type = "PRINCIPAL" => members[m].principal_member = Null

\* the items of a claim
ItemsOf(c) == { i \in DOMAIN claim_items : claim_items[i].claim = c }

\* C13: every item's total_amount is its quantity times its unit_price, and
\* every claim's claimed_amount is the sum of the total_amount of its items,
\* whatever the number of items and their quantities.
C13_ClaimedAmountIsItemTotal ==
    /\ \A i \in DOMAIN claim_items :
          claim_items[i].total_amount =
              claim_items[i].quantity * claim_items[i].unit_price
    /\ \A c \in DOMAIN claims :
          claims[c].claimed_amount =
              SumOver(ItemsOf(c), [ i \in DOMAIN claim_items |->
                                      claim_items[i].total_amount ])

\* C14: the contribution_amount stored with a gross salary is the larger of
\* 300.00 and 2.75% of the salary (to the cent), and no stored
\* contribution_amount is below 300.00.
C14_AmountIsClampedRate ==
    \A k \in DOMAIN contributions :
        /\ contributions[k].contribution_amount >= 30000
        /\ contributions[k].gross_salary # Null =>
              \E rounding \in Roundings :
                 contributions[k].contribution_amount =
                     to_db(Max(3000000, contributions[k].gross_salary * 275), rounding)

(***************************************************************************)
(* Claims about the contribution and payment ledgers.                      *)
(***************************************************************************)
\* the rows of a table after a mark action: the selected ones with the given
\* status, every other field and every other row as before
Marked(rows, status) ==
    [ k \in DOMAIN rows |->
        IF k \in Selected THEN [ rows[k] EXCEPT !.status = status ] ELSE rows[k] ]

\* C24: the Contribution and Payment bulk actions mark_as_completed and
\* mark_as_failed set the status of every selected row to COMPLETED or FAILED
\* respectively whatever its prior status, and report a count equal to the
\* size of the selection.
C24_MarkAppliesToAll ==
    [][ /\ Did("contribution.mark_as_completed") =>
              contributions' = Marked(contributions, "COMPLETED")
        /\ Did("contribution.mark_as_failed") =>
              contributions' = Marked(contributions, "FAILED")
        /\ Did("payment.mark_as_completed") =>
              payments' = Marked(payments, "COMPLETED")
        /\ Did("payment.mark_as_failed") =>
              payments' = Marked(payments, "FAILED")
        /\ \A action \in { "contribution.mark_as_completed",
                            "contribution.mark_as_failed",
                            "payment.mark_as_completed", "payment.mark_as_failed" } :
              Did(action) => /\ report'.count = Cardinality(Selected)
                             /\ Selected # {} ]_vars

\* the second request of a behaviour has marked two contributions at once as
\* FAILED: the rows the seed command had created as COMPLETED or PENDING
C24_Witness ==
    /\ report.action = "contribution.mark_as_failed"
    /\ report.at = 2
    /\ report.count >= 2
    /\ \A k \in report.selected : contributions[k].status = "FAILED"

(***************************************************************************)
(* Bulk actions of requests in flight together.  A bulk action is one      *)
(* UPDATE statement (queryset.filter(...).update(...)), run in autocommit: *)
(* the statement visits the selected rows one at a time, locks and writes  *)
(* each row its WHERE clause matches, and its writes are seen by other     *)
(* requests when the statement commits.  A statement that meets a row      *)
(* another open statement has written waits for that statement to end and  *)
(* then examines the row as it was left.                                   *)
(***************************************************************************)
\* the table the admin at work is registered for
BatchTable == IF fam = "Claim" THEN claims ELSE preauths

\* actions = [...] of ClaimAdmin and of PreAuthorizationAdmin
BatchActions ==
    IF fam = "Claim"
    THEN { "mark_under_review", "approve_claims", "reject_claims" }
    ELSE { "approve_preauthorization", "reject_preauthorization" }

\* the WHERE clause of the action's UPDATE
batch_filter(action, row) ==
    CASE action = "mark_under_review" -> mark_under_review_filter(row)
      [] action = "approve_claims" -> approve_claims_filter(row)
      [] action = "reject_claims" -> reject_claims_filter(row)
      [] action = "approve_preauthorization" -> approve_preauthorization_filter(row)
      [] action = "reject_preauthorization" -> reject_preauthorization_filter(row)

\* the SET clause of the action's UPDATE; timezone.now() is evaluated once,
\* when the request calls update()
batch_update(action, row, user, at) ==
    CASE action = "mark_under_review" ->
             [ mark_under_review_update(row) EXCEPT !.review_date = at ]
      [] action = "approve_claims" ->
             [ approve_claims_update(row, user) EXCEPT !.approval_date = at ]
      [] action = "reject_claims" -> reject_claims_update(row)
      [] action = "approve_preauthorization" ->
             [ approve_preauthorization_update(row, user) EXCEPT !.approval_date = at ]
      [] action = "reject_preauthorization" -> reject_preauthorization_update(row)

\* the actions that store request.user
StoresUser(action) == action \in { "approve_claims", "approve_preauthorization" }

\* request.user of the requests in flight together: each of the staff has
\* one request under way at a time
Staff == << "officer_a", "officer_b" >>

\* mutant of uncommitted_write: every row is saved and committed on its own
\* (for obj in queryset: obj.save())
uncommitted_write_row_by_row(rows, r, new) == [ rows EXCEPT ![r] = new ]

\* what the other requests see of a row an open statement has written: the
\* table as it was, until the statement commits
uncommitted_write(rows, r, new) == rows

\* the statement's writes, applied to the table when it commits
committed(rows, written) ==
    [ r \in DOMAIN rows |-> IF r \in DOMAIN written THEN written[r] ELSE rows[r] ]

\* the table of the admin at work becomes rows
StoreBatchTable(rows) ==
    IF fam = "Claim"
    THEN claims' = rows /\ UNCHANGED preauths
    ELSE preauths' = rows /\ UNCHANGED claims

\* mutant of LockedByOther: rows are written without being locked
LockedByNone(p, r) == FALSE

\* another open statement holds the row lock of r
LockedByOther(p, r) ==
    \E q \in DOMAIN Staff \ { p } : pc[q] = "update" /\ r \in DOMAIN req[q].written

\* the request is waiting for a row lock that q holds
WaitsFor(p, q) ==
    /\ pc[p] = "update" /\ pc[q] = "update"
    /\ \E r \in req[p].selected \ req[p].visited : r \in DOMAIN req[q].written

\* the request arrives: the action is called with the selection, and calls
\* update() with the user and the time of the call
BatchBegin(p, action, sel) ==
    /\ pc[p] = "idle"
    /\ Tick
    /\ action \in BatchActions
    /\ sel \in Selections(BatchTable)
    /\ req' = [ req EXCEPT ![p] =
                  [ action |-> action, selected |-> sel, user |-> Staff[p], at |-> now,
                    visited |-> {}, written |-> << >>, updated |-> Null,
                    error |-> FALSE,
                    met |-> { q \in DOMAIN Staff : pc[q] = "update" } ] ]
    /\ pc' = [ pc EXCEPT ![p] = "update" ]
    /\ UNCHANGED << fam, year, table, nextId, hist, claims, preauths, payments,
                    report, bookVars >>

\* the statement examines one more of the selected rows
BatchVisit(p, r) ==
    /\ pc[p] = "update"
    /\ r \in req[p].selected \ req[p].visited
    /\ ~LockedByOther(p, r)
    /\ LET g == req[p]
           new == batch_update(g.action, BatchTable[r], g.user, g.at)
           matches == batch_filter(g.action, BatchTable[r])
       IN  /\ req' = [ req EXCEPT ![p].visited = g.visited \cup { r },
                                  ![p].written =
                                      IF matches
                                      THEN [ d \in DOMAIN g.written \cup { r } |->
                                               IF d = r THEN new ELSE g.written[d] ]
                                      ELSE g.written ]
           /\ StoreBatchTable(IF matches
                              THEN uncommitted_write(BatchTable, r, new)
                              ELSE BatchTable)
    /\ UNCHANGED << fam, year, table, nextId, hist, pc, payments, now,
                    report, bookVars >>

\* the statement has examined every selected row: it commits, update()
\* returns the number of rows written and message_user reports it
BatchCommit(p) ==
    /\ pc[p] = "update"
    /\ req[p].visited = req[p].selected
    /\ LET g == req[p]
           count == Cardinality(DOMAIN g.written)
       IN  /\ StoreBatchTable(committed(BatchTable, g.written))
           /\ req' = [ req EXCEPT ![p].updated = count ]
           /\ report' = [ message_user(g.action, g.selected, count,
                                       IF StoresUser(g.action) THEN g.user ELSE NoUser)
                            EXCEPT !.at = g.at ]
    /\ pc' = [ pc EXCEPT ![p] = "done" ]
    /\ UNCHANGED << fam, year, table, nextId, hist, payments, now, bookVars >>

\* two statements wait for each other's row locks: the database ends one of
\* them with an error and undoes its writes
BatchAbort(p) ==
    /\ \E q \in DOMAIN Staff \ { p } : WaitsFor(p, q) /\ WaitsFor(q, p)
    /\ req' = [ req EXCEPT ![p].written = << >>, ![p].error = TRUE ]
    /\ pc' = [ pc EXCEPT ![p] = "done" ]
    /\ UNCHANGED << fam, year, table, nextId, hist, claims, preauths, payments,
                    now, report, bookVars >>

\* rows as the forms and the actions leave them: claims not yet decided, and
\* pending pre-authorizations, new or put back to PENDING in the change form
\* after an approval
BatchClaimRows ==
    { [ status |-> s, review_date |-> Null, approval_date |-> Null,
        approved_by |-> NoUser, claimed_amount |-> 350000,
        approved_amount |-> Null, rejection_reason |-> "" ] :
      s \in { "SUBMITTED", "UNDER_REVIEW" } }

BatchPreAuthRows ==
    { [ status |-> "PENDING", approval_date |-> d.at, approved_by |-> d.by,
        estimated_cost |-> 2000000, approved_amount |-> Null,
        rejection_reason |-> "" ] :
      d \in { [ at |-> Null, by |-> NoUser ], [ at |-> 1, by |-> "officer_a" ] } }

BatchInit ==
    /\ fam \in { "Claim", "PreAuthorization" }
    /\ CodesAtRest
    /\ BooksAtRest
    /\ claims \in IF fam = "Claim" THEN [ 1..MaxRows -> BatchClaimRows ] ELSE { << >> }
    /\ preauths \in IF fam = "PreAuthorization"
                     THEN [ 1..MaxRows -> BatchPreAuthRows ] ELSE { << >> }
    /\ payments = << >>
    /\ now = 2
    /\ report = NoReport

BatchNext ==
    \/ \E p \in DOMAIN Staff, action \in BatchActions,
          sel \in Selections(BatchTable) : BatchBegin(p, action, sel)
    \/ \E p \in DOMAIN Staff, r \in DOMAIN BatchTable : BatchVisit(p, r)
    \/ \E p \in DOMAIN Staff : BatchCommit(p)
    \/ \E p \in DOMAIN Staff : BatchAbort(p)

SpecBatch == BatchInit /\ [][BatchNext]_vars

\* pre-authorizations created PENDING in the add form, with the approval
\* fields left empty, and changed by the two bulk actions only
PreAuthInit ==
    /\ AdminInit
    /\ fam = "PreAuthorization"

PreAuthNext ==
    \/ \E cost \in EstimatedCosts :
          preauthorization_save_model(Len(preauths) + 1, "PENDING", cost, Null, "")
    \/ \E p \in DOMAIN Staff, action \in BatchActions,
          sel \in Selections(BatchTable) : BatchBegin(p, action, sel)
    \/ \E p \in DOMAIN Staff, r \in DOMAIN BatchTable : BatchVisit(p, r)
    \/ \E p \in DOMAIN Staff : BatchCommit(p)
    \/ \E p \in DOMAIN Staff : BatchAbort(p)

SpecPreAuth == PreAuthInit /\ [][PreAuthNext]_vars

(***************************************************************************)
(* Claims about bulk actions in flight together.                           *)
(***************************************************************************)
\* C22: for pre-authorizations created PENDING with empty approval fields and
\* changed only by approve_preauthorization and reject_preauthorization (in
\* any order or interleaving), a pre-authorization whose status is not
\* APPROVED has null approval_date, approved_by and approved_amount.
C22_StampsOnlyWhenApproved ==
    \A p \in DOMAIN preauths :
        preauths[p].status # "APPROVED"
        => /\ preauths[p].approval_date = Null
           /\ preauths[p].approved_by = NoUser
           /\ preauths[p].approved_amount = Null

\* an approval of two pre-authorizations and a rejection of one of them, in
\* flight together, have each written one row
C22_Witness ==
    /\ fam = "PreAuthorization"
    /\ \E p, q \in DOMAIN Staff :
          /\ pc[p] = "done" /\ pc[q] = "done"
          /\ req[p].action = "approve_preauthorization"
          /\ req[q].action = "reject_preauthorization"
          /\ req[p].selected = { 1, 2 } /\ req[q].selected = { 2 }
          /\ req[p].updated = 1 /\ req[q].updated = 1
          /\ p \in req[q].met \/ q \in req[p].met
    /\ \E a, b \in DOMAIN preauths :
          /\ preauths[a].status = "APPROVED" /\ preauths[a].approval_date # Null
          /\ preauths[b].status = "REJECTED" /\ preauths[b].approval_date = Null

\* C26: each batch admin action takes effect as one atomic multi-row update:
\* the table other requests see changes only in the step in which a
\* statement commits, and then by every row the statement has written at
\* once, with the count reported; a statement the database ends with an
\* error changes nothing.
C26_BatchIsAtomic ==
    [][ /\ BatchTable' # BatchTable =>
              \E p \in DOMAIN Staff :
                 /\ pc[p] = "update" /\ pc'[p] = "done"
                 /\ ~req'[p].error
                 /\ req[p].visited = req[p].selected
                 /\ DOMAIN req[p].written # {}
                 /\ BatchTable' = committed(BatchTable, req[p].written)
                 /\ \A r \in DOMAIN req[p].written :
                       BatchTable'[r] =
                           batch_update(req[p].action, BatchTable[r],
                                        req[p].user, req[p].at)
                 /\ report'.count = Cardinality(DOMAIN req[p].written)
        /\ \A p \in DOMAIN Staff :
              ( pc[p] = "update" /\ pc'[p] = "done" /\ req'[p].error )
              => ( BatchTable' = BatchTable /\ report' = report ) ]_vars

\* a statement has committed two rows at once while the other request's
\* statement, which had examined a row already, was still open
C26_Witness ==
    /\ report.count = 2
    /\ \E p, q \in DOMAIN Staff :
          /\ pc[p] = "done" /\ req[p].updated = 2 /\ req[p].at = report.at
          /\ pc[q] = "update" /\ req[q].visited # {}
          /\ req[q].selected \cap req[p].selected # {}

\* an approval and a rejection of one and the same pre-authorization, one
\* of which arrived while the other's statement was open, have both ended
BothEnded(p, q, r) ==
    /\ fam = "PreAuthorization"
    /\ pc[p] = "done" /\ pc[q] = "done"
    /\ req[p].action = "approve_preauthorization"
    /\ req[q].action = "reject_preauthorization"
    /\ req[p].selected = { r } /\ req[q].selected = { r }
    /\ p \in req[q].met \/ q \in req[p].met

\* exactly one of the two took effect, and the status is the winner's
OneTookEffect(p, q, r) ==
    /\ req[p].updated + req[q].updated = 1
    /\ preauths[r].status = IF req[p].updated = 1 THEN "APPROVED" ELSE "REJECTED"

Stamped(row) == row.approval_date # Null /\ row.approved_by # NoUser

\* C30 (as stated): when approve_preauthorization and
\* reject_preauthorization are applied concurrently to the same PENDING
\* pre-authorization, exactly one of them takes effect: the reported counts
\* sum to 1, the final status is the one set by the action that reported 1,
\* and approval_date and approved_by are non-null if and only if the final
\* status is APPROVED.
C30_ExactlyOneStampsIffApproved ==
    \A p, q \in DOMAIN Staff, r \in DOMAIN preauths :
        BothEnded(p, q, r)
        => /\ OneTookEffect(p, q, r)
           /\ Stamped(preauths[r]) <=> preauths[r].status = "APPROVED"

\* C30 (amended): exactly one of the two takes effect, the reported counts
\* sum to 1 and the final status is the one set by the action that reported
\* 1; an APPROVED pre-authorization has approval_date and approved_by set,
\* and a rejection leaves both as they were: null if the pre-authorization
\* was never approved, the old stamps if it was approved earlier and put back
\* to PENDING.
C30_ExactlyOneStampsKept ==
    /\ [] ( \A p, q \in DOMAIN Staff, r \in DOMAIN preauths :
               BothEnded(p, q, r)
               => /\ OneTookEffect(p, q, r)
                  /\ preauths[r].status = "APPROVED" => Stamped(preauths[r]) )
    /\ [][ Did("reject_preauthorization") =>
              \A r \in DOMAIN preauths :
                 /\ preauths'[r].approval_date = preauths[r].approval_date
                 /\ preauths'[r].approved_by = preauths[r].approved_by ]_vars

\* the rejection arrived while the approval's statement was open and won:
\* it reported 1, the approval 0, and the pre-authorization is REJECTED
C30_Witness ==
    \E p, q \in DOMAIN Staff, r \in DOMAIN preauths :
        /\ BothEnded(p, q, r)
        /\ p \in req[q].met
        /\ req[q].updated = 1 /\ req[p].updated = 0
        /\ preauths[r].status = "REJECTED"

(***************************************************************************)
(* Deletion.  The rows of the database with their foreign keys, the        *)
(* on_delete rule of each key, and what deleting a row does (the collector *)
(* of QuerySet.delete and Model.delete).  Primary keys are UUIDs: an id is *)
(* never used twice, in any table.  The keys to User, BenefitPackage and   *)
(* BenefitService are left out.                                            *)
(***************************************************************************)
MaxStoreOps == 2      \* requests in one behaviour of the database

FK(model, field, to, on_delete) ==
    [ model |-> model, field |-> field, to |-> to, on_delete |-> on_delete ]

\* the ForeignKey fields of models.py
ForeignKeys ==
    { FK("Member", "principal_member", "Member", "CASCADE"),
      FK("Member", "employer", "Employer", "SET_NULL"),
      FK("Contribution", "member", "Member", "CASCADE"),
      FK("Contribution", "employer", "Employer", "SET_NULL"),
      FK("PreAuthorization", "member", "Member", "CASCADE"),
      FK("PreAuthorization", "healthcare_provider", "HealthcareProvider", "CASCADE"),
      FK("Claim", "member", "Member", "CASCADE"),
      FK("Claim", "healthcare_provider", "HealthcareProvider", "CASCADE"),
      FK("Claim", "preauthorization", "PreAuthorization", "SET_NULL"),
      FK("ClaimItem", "claim", "Claim", "CASCADE"),
      FK("Payment", "healthcare_provider", "HealthcareProvider", "CASCADE"),
      FK("Payment", "claim", "Claim", "CASCADE"),
      FK("EligibilityCheck", "member", "Member", "CASCADE"),
      FK("EligibilityCheck", "healthcare_provider", "HealthcareProvider", "CASCADE") }

\* null=True, blank=True: the keys a form may leave empty
Nullable(fk) == fk.on_delete = "SET_NULL" \/ fk.field = "principal_member"

StoreRow(model, id, refs) == [ model |-> model, id |-> id, refs |-> refs ]

\* the row holds the key fk and it refers to the row o
RefersTo(r, fk, o) ==
    /\ r.model = fk.model
    /\ o.model = fk.to
    /\ r.refs[fk.field] = o.id

\* mutant of cascades: only the keys to Member cascade
cascades_to_member_only(fk) == fk.on_delete = "CASCADE" /\ fk.to = "Member"

\* on_delete=models.CASCADE
cascades(fk) == fk.on_delete = "CASCADE"

\* Collector.collect: the rows to delete, with every row that refers to one
\* of them through a cascading key
RECURSIVE collect(_, _)
collect(rows, objs) ==
    LET more == { r \in rows \ objs :
                    \E fk \in ForeignKeys, o \in objs :
                       cascades(fk) /\ RefersTo(r, fk, o) }
    IN  IF more = {} THEN objs ELSE collect(rows, objs \cup more)

\* on_delete=models.SET_NULL: the keys of a surviving row that refer to a
\* deleted row become null
set_null(r, gone) ==
    [ r EXCEPT !.refs =
        [ f \in DOMAIN r.refs |->
            IF \E fk \in ForeignKeys, o \in gone :
                  /\ fk.on_delete = "SET_NULL"
                  /\ fk.field = f
                  /\ RefersTo(r, fk, o)
            THEN Null ELSE r.refs[f] ] ]

\* obj.delete() / queryset.delete()
delete(rows, objs) ==
    LET gone == collect(rows, objs)
    IN  { set_null(r, gone) : r \in rows \ gone }

\* the random choices of one run of the seed command: the member and the
\* provider of the claim, the member of the pre-authorization (positions in
\* the lists members and providers)
StoreDraws ==
    { [ claim_member |-> 1, claim_provider |-> 1, preauth_member |-> 1 ],
      [ claim_member |-> 3, claim_provider |-> 2, preauth_member |-> 1 ],
      [ claim_member |-> 1, claim_provider |-> 2, preauth_member |-> 2 ] }

\* Command.handle after clear_data: the create_* methods, with ids from
\* first on: one employer, two providers, two principals (the first one
\* employed) and a dependent of the first, a contribution of the employed
\* principal, a pre-authorization, a PAID claim with one item and its
\* payment, an eligibility check and an audit log entry
seed_rows(first, d) ==
    LET employer == first
        providers == << first + 1, first + 2 >>
        principals_and_dependent == << first + 3, first + 4, first + 5 >>
        preauth == first + 7
        the_claim == first + 8
        none == [ f \in {} |-> Null ]
    IN  { StoreRow("Employer", employer, none),
          StoreRow("HealthcareProvider", providers[1], none),
          StoreRow("HealthcareProvider", providers[2], none),
          StoreRow("Member", principals_and_dependent[1],
                   [ principal_member |-> Null, employer |-> employer ]),
          StoreRow("Member", principals_and_dependent[2],
                   [ principal_member |-> Null, employer |-> Null ]),
          StoreRow("Member", principals_and_dependent[3],
                   [ principal_member |-> principals_and_dependent[1],
                     employer |-> employer ]),
          StoreRow("Contribution", first + 6,
                   [ member |-> principals_and_dependent[1], employer |-> employer ]),
          StoreRow("PreAuthorization", preauth,
                   [ member |-> principals_and_dependent[d.preauth_member],
                     healthcare_provider |-> providers[1] ]),
          StoreRow("Claim", the_claim,
                   [ member |-> principals_and_dependent[d.claim_member],
                     healthcare_provider |-> providers[d.claim_provider],
                     preauthorization |->
                         IF d.preauth_member = d.claim_member THEN preauth ELSE Null ]),
          StoreRow("ClaimItem", first + 9, [ claim |-> the_claim ]),
          StoreRow("Payment", first + 10,
                   [ healthcare_provider |-> providers[d.claim_provider],
                     claim |-> the_claim ]),
          StoreRow("EligibilityCheck", first + 11,
                   [ member |-> principals_and_dependent[2],
                     healthcare_provider |-> providers[2] ]),
          StoreRow("AuditLog", first + 12, none) }

\* the admins whose add form is followed
AddForms == { "Claim", "Payment" }

\* the choices of the add form of a model: for every key an existing row of
\* the model it refers to, or nothing where the key may be left empty
FormChoices(model) ==
    LET keys == { fk \in ForeignKeys : fk.model = model }
        fields == { fk.field : fk \in keys }
        KeyOf(f) == CHOOSE fk \in keys : fk.field = f
        options(f) ==
            { o.id : o \in { r \in db : r.model = KeyOf(f).to } }
            \cup ( IF Nullable(KeyOf(f)) THEN { Null } ELSE {} )
    IN  { refs \in [ fields -> UNION { options(f) : f \in fields } ] :
            \A f \in fields : refs[f] \in options(f) }

\* every request takes place at a later time than the one before
StoreTick == now <= MaxStoreOps /\ now' = now + 1

\* Command.handle: clear_data() deletes the rows of every table, the audit
\* log with them, and the create_* methods write new rows
store_seed(d) ==
    /\ fam = "Database"
    /\ StoreTick
    /\ db' = seed_rows(nextId, d)
    /\ nextId' = nextId + Cardinality(db')
    /\ report' = Request("seed.handle", { r.id : r \in db' }, Cardinality(db'))
    /\ UNCHANGED << fam, year, table, hist, pc, req, claims, preauths, payments,
                    members, contributions, claim_items, errors, refused >>

\* the delete view of the admin of the row's model (AuditLogAdmin has none:
\* has_delete_permission is False)
store_delete(o) ==
    /\ fam = "Database"
    /\ StoreTick
    /\ o \in db
    /\ o.model # "AuditLog"
    /\ db' = delete(db, { o })
    /\ report' = Request("delete", { o.id }, Cardinality(db) - Cardinality(db'))
    /\ UNCHANGED << fam, codeVars, claims, preauths, payments,
                    members, contributions, claim_items, errors, refused >>

\* the add form of ClaimAdmin or PaymentAdmin: the row is saved with the
\* rows chosen in its foreign-key fields
store_add(model, refs) ==
    /\ fam = "Database"
    /\ StoreTick
    /\ model \in AddForms
    /\ refs \in FormChoices(model)
    /\ db' = db \cup { StoreRow(model, nextId, refs) }
    /\ nextId' = nextId + 1
    /\ report' = Request("add", { nextId }, 1)
    /\ UNCHANGED << fam, year, table, hist, pc, req, claims, preauths, payments,
                    members, contributions, claim_items, errors, refused >>

StoreInit ==
    /\ fam = "Database"
    /\ year = StartYear
    /\ table = {}
    /\ hist = << >>
    /\ pc = [ p \in Requests |-> "idle" ]
    /\ req = [ p \in Requests |-> Idle ]
    /\ FlowAtRest
    /\ members = << >>
    /\ contributions = << >>
    /\ claim_items = << >>
    /\ errors = {}
    /\ refused = << >>
    /\ \E d \in StoreDraws : db = seed_rows(1, d)
    /\ nextId = Cardinality(db) + 1

StoreNext ==
    \/ \E d \in StoreDraws : store_seed(d)
    \/ \E o \in db : store_delete(o)
    \/ \E model \in AddForms : \E refs \in FormChoices(model) : store_add(model, refs)

SpecStore == StoreInit /\ [][StoreNext]_vars

(***************************************************************************)
(* Claims about deletion and the audit log.                                *)
(***************************************************************************)
\* the row the delete view was opened for
Deleted == CHOOSE o \in db : o.id \in Selected

\* the rows of db that are no longer in db'
Gone == { r \in db : \A t \in db' : t.id # r.id }

\* C27: deleting an Employer or a HealthcareProvider that is referenced by
\* other records deletes none of those records: each dependent record
\* survives with its foreign key to the deleted party set to null.
C27_PartyDeletionNullifies ==
    [][ ( Did("delete") /\ Deleted.model \in { "Employer", "HealthcareProvider" } )
        => \A r \in db \ { Deleted } :
              \E t \in db' :
                 /\ t.id = r.id /\ t.model = r.model
                 /\ \A f \in DOMAIN r.refs :
                       t.refs[f] = IF r.refs[f] = Deleted.id THEN Null ELSE r.refs[f]
      ]_vars

\* every non-null foreign key refers to an existing row of the right model
NoDanglingKey ==
    \A r \in db, fk \in ForeignKeys :
        ( r.model = fk.model /\ r.refs[fk.field] # Null )
        => \E o \in db : RefersTo(r, fk, o)

\* C28: after a Member is deleted no Contribution, PreAuthorization, Claim or
\* dependent Member referencing it remains, and after a Claim is deleted
\* (directly or through its member) no ClaimItem or Payment referencing it
\* remains; in every reachable state every non-null foreign key refers to an
\* existing record.
C28_DeletionCascades ==
    /\ [] NoDanglingKey
    /\ [][ Did("delete") =>
              \A o \in Gone :
                 o.model \in { "Member", "Claim" }
                 => \A t \in db' : \A f \in DOMAIN t.refs : t.refs[f] # o.id ]_vars

\* a principal member has been deleted, and with it its dependent, its
\* contribution, its claim and the claim's item and payment, while rows of
\* other members remain
C28_Witness ==
    /\ report.action = "delete"
    /\ report.count >= 6
    /\ { r.model : r \in db } =
          { "Employer", "HealthcareProvider", "Member", "EligibilityCheck", "AuditLog" }

\* C29: the audit log is append-only: once an AuditLog entry is written, no
\* operation of the system updates or deletes it, so the set of entries only
\* ever grows.
C29_AuditLogAppendOnly ==
    [][ \A r \in db : r.model = "AuditLog" => r \in db' ]_vars

====
